---- MODULE Spec2Model ----
(***************************************************************************)
(* ImportFlow: the document approval workflow.                             *)
(*                                                                         *)
(* The model holds the two tables the workflow writes (documents and       *)
(* document_history) with their row-level policies, and, per browser       *)
(* session, the React state of the CreateDocument and DocumentDetail       *)
(* pages.  A handler is cut into steps at its awaits: the step that starts *)
(* a handler runs up to and including its first backend call, every later  *)
(* step runs one awaited call and the synchronous code that follows it.    *)
(***************************************************************************)
EXTENDS Integers, Sequences, FiniteSets, TLC

VARIABLES
    documents,         \* table documents, in insertion order
    document_history,  \* table document_history, in insertion order
    document_files,    \* table document_files, in insertion order
    storage_objects,   \* bucket document-files: the set of stored paths
    user,              \* session -> useAuth().user.id (NULL: no identity)
    currentPage,       \* session -> App.currentPage
    authLoading,       \* session -> session provider's loading flag
    documentId,        \* session -> App.selectedDocumentId, DocumentDetail's prop
    document,          \* session -> DocumentDetail state document (<<>>: null)
    history,           \* session -> DocumentDetail state history
    loading,           \* session -> DocumentDetail state loading
    actionLoading,     \* session -> DocumentDetail state actionLoading
    rejectionReason,   \* session -> DocumentDetail state rejectionReason
    showRejectModal,   \* session -> DocumentDetail state showRejectModal
    mountLoads,        \* session -> loads of the mount effect still pending
    files,             \* session -> CreateDocument state files
    createLoading,     \* session -> CreateDocument state loading
    uploading,         \* session -> CreateDocument state uploading
    pc,                \* session -> position inside the running handler
    captured,          \* session -> values the running handler closed over
    lastAlert,         \* session -> text of the alert() on screen ("": none)
    authMode,          \* session -> App.authMode
    background,        \* session -> handlers still running of unmounted pages
    products,          \* table products, each row with its stock_balances rows
    stock_movements,   \* table stock_movements, in insertion order
    stats,             \* InventoryDashboard state stats
    lowStockAlerts,    \* InventoryDashboard state lowStockAlerts
    inventoryLoading,  \* InventoryDashboard state loading
    catalogLoading,    \* ProductCatalog state loading
    catalogProducts,   \* ProductCatalog state products
    catalogSearchTerm, \* ProductCatalog state searchTerm
    filteredProducts,  \* ProductCatalog state filteredProducts
    listDocuments,     \* DocumentList state documents
    searchTerm,        \* DocumentList state searchTerm
    statusFilter,      \* DocumentList state statusFilter
    typeFilter,        \* DocumentList state typeFilter
    filteredDocs       \* DocumentList state filteredDocs

vars == <<documents, document_history, document_files, storage_objects, user,
          authLoading, currentPage, documentId, document, history, loading, actionLoading,
          rejectionReason, showRejectModal, mountLoads, files, createLoading,
          uploading, pc, captured, lastAlert, authMode, background, products,
          stock_movements, stats, lowStockAlerts, inventoryLoading, catalogLoading,
          catalogProducts,
          catalogSearchTerm, filteredProducts, listDocuments, searchTerm,
          statusFilter, typeFilter, filteredDocs>>

dbVars == <<documents, document_history, document_files, storage_objects>>

appVars == <<user, authLoading, currentPage, documentId>>

detailVars == <<document, history, loading, actionLoading, rejectionReason,
                showRejectModal, mountLoads>>

createVars == <<files, createLoading, uploading>>

runVars == <<pc, captured, lastAlert>>

inventoryVars == <<products, stock_movements, stats, lowStockAlerts, inventoryLoading,
                   catalogLoading,
                   catalogProducts, catalogSearchTerm, filteredProducts>>

listVars == <<listDocuments, searchTerm, statusFilter, typeFilter, filteredDocs>>

\* what the document workflow neither reads nor writes
viewVars == <<authMode, background, inventoryVars, listVars>>

----------------------------------------------------------------------------
(* Bounds of the model *)

\* rows document_history can hold
MaxHistory == 4

\* attachments one CreateDocument form can hold
MaxFiles == 1

----------------------------------------------------------------------------
(* Identities, roles, texts *)

Sessions == {"s1", "s2"}

Users == {"requester", "approver", "finance", "admin"}

\* users_profile.role of each identity
Role(u) ==
    CASE u = "requester" -> "Requester"
      [] u = "approver"  -> "Approver"
      [] u = "finance"   -> "Finance"
      [] u = "admin"     -> "Admin"

\* SQL NULL of a uuid or status column
NULL == "NULL"

\* A text is a sequence of characters; SQL NULL of a text column
NullText == <<NULL>>

\* what can be typed into the rejection textarea
ReasonInputs == {<<>>, <<" ">>, <<" ", "x">>}

DocumentNumbers == {"PO-2024-001"}

\* the ids uuid_generate_v4() gives the rows of documents, in order
DocumentIds == <<"doc-1", "doc-2", "doc-3">>

\* the files a user can pick as attachments
SelectableFiles == {"invoice.pdf"}

IsWhitespace(c) == c = " "

RECURSIVE TrimStart(_)
TrimStart(t) ==
    IF t # <<>> /\ IsWhitespace(Head(t)) THEN TrimStart(Tail(t)) ELSE t

RECURSIVE TrimEnd(_)
TrimEnd(t) ==
    IF t # <<>> /\ IsWhitespace(t[Len(t)])
    THEN TrimEnd(SubSeq(t, 1, Len(t) - 1))
    ELSE t

\* a trim that leaves the text as it is
TrimNothing(t) == t

\* String.prototype.trim
Trim(t) == TrimEnd(TrimStart(t))

\* JavaScript truthiness of a string
Truthy(t) == t # <<>>

----------------------------------------------------------------------------
(* Row-level policies of the migration.  Permissive policies of one command *)
(* are OR-ed; a USING clause that fails hides the row from the command, a   *)
(* WITH CHECK clause that fails on the new row makes the command an error.  *)

\* EXISTS (SELECT 1 FROM users_profile WHERE id = auth.uid() AND role IN roles)
HasRole(uid, roles) == Role(uid) \in roles

\* "Users can view documents they created or approve"
DocumentsSelectPolicy(uid, row) ==
    \/ uid = row.created_by
    \/ uid = row.approver_id
    \/ HasRole(uid, {"Admin", "Finance"})

\* "Users can create documents"
DocumentsInsertPolicy(uid, row) == uid = row.created_by

\* a policy that lets creators update their pending documents instead
CreatorsUpdateUsingPending(uid, row) ==
    uid = row.created_by /\ row.status = "Pending"

\* "Creators can update their draft documents": USING
CreatorsUpdateUsing(uid, row) == uid = row.created_by /\ row.status = "Draft"

\* "Creators can update their draft documents": WITH CHECK
CreatorsUpdateCheck(uid, row) == uid = row.created_by

\* "Approvers can update documents assigned to them": USING and WITH CHECK
ApproversUpdatePolicy(uid, row) == uid = row.approver_id

\* "Admins can manage all documents": FOR ALL, USING (also its WITH CHECK)
AdminsManagePolicy(uid, row) == HasRole(uid, {"Admin"})

\* the rows of documents an UPDATE by uid can touch
DocumentsUpdateUsing(uid, row) ==
    /\ DocumentsSelectPolicy(uid, row)
    /\ \/ CreatorsUpdateUsing(uid, row)
       \/ ApproversUpdatePolicy(uid, row)
       \/ AdminsManagePolicy(uid, row)

\* the new rows an UPDATE by uid may leave behind
DocumentsUpdateCheck(uid, row) ==
    \/ CreatorsUpdateCheck(uid, row)
    \/ ApproversUpdatePolicy(uid, row)
    \/ AdminsManagePolicy(uid, row)

\* the new rows an INSERT by uid may add
DocumentsInsertCheck(uid, row) ==
    \/ DocumentsInsertPolicy(uid, row)
    \/ AdminsManagePolicy(uid, row)

\* "Users can view history for accessible documents"
HistorySelectPolicy(uid, h) ==
    \E i \in DOMAIN documents :
        /\ documents[i].id = h.document_id
        /\ \/ documents[i].created_by = uid
           \/ documents[i].approver_id = uid
           \/ HasRole(uid, {"Admin", "Finance"})

\* "System can insert history records"
HistoryInsertPolicy(uid, h) == uid = h.performed_by

----------------------------------------------------------------------------
(* The query interface: what one request does to the tables *)

\* row with the columns of patch overwritten
ApplyPatch(row, patch) ==
    [c \in DOMAIN row |-> IF c \in DOMAIN patch THEN patch[c] ELSE row[c]]

\* supabase.from('documents').update(patch).eq('id', id) as uid:
\* error, number of rows changed, and the table afterwards
UpdateDocuments(uid, id, patch) ==
    LET hit == {i \in DOMAIN documents :
                    documents[i].id = id /\ DocumentsUpdateUsing(uid, documents[i])}
        refused == \E i \in hit :
                    ~DocumentsUpdateCheck(uid, ApplyPatch(documents[i], patch))
    IN  IF refused
        THEN [error |-> TRUE, count |-> 0, table |-> documents]
        ELSE [error |-> FALSE, count |-> Cardinality(hit),
              table |-> [i \in DOMAIN documents |->
                            IF i \in hit THEN ApplyPatch(documents[i], patch)
                                         ELSE documents[i]]]

\* an insert into a table without the UNIQUE constraint on document_number
InsertDocumentNotUnique(uid, fields) ==
    LET row == [id              |-> DocumentIds[Len(documents) + 1],
                document_number |-> fields.document_number,
                status          |-> fields.status,
                created_by      |-> fields.created_by,
                approver_id     |-> NULL,
                rejection_reason |-> NullText]
    IN  IF ~DocumentsInsertCheck(uid, row) \/ ~DocumentsSelectPolicy(uid, row)
        THEN [error |-> TRUE, data |-> <<>>, table |-> documents]
        ELSE [error |-> FALSE, data |-> <<row>>, table |-> Append(documents, row)]

\* supabase.from('documents').insert(fields).select().single() as uid;
\* the columns fields does not name take the table's defaults
InsertDocument(uid, fields) ==
    LET row == [id              |-> DocumentIds[Len(documents) + 1],
                document_number |-> fields.document_number,
                status          |-> fields.status,
                created_by      |-> fields.created_by,
                approver_id     |-> NULL,
                rejection_reason |-> NullText]
        duplicate == \E i \in DOMAIN documents :
                        documents[i].document_number = row.document_number
    IN  IF duplicate \/ ~DocumentsInsertCheck(uid, row)
                     \/ ~DocumentsSelectPolicy(uid, row)
        THEN [error |-> TRUE, data |-> <<>>, table |-> documents]
        ELSE [error |-> FALSE, data |-> <<row>>, table |-> Append(documents, row)]

\* an insert that replaces the table by its one new row
InsertHistoryOverwrite(uid, fields) ==
    [error |-> FALSE,
     table |-> <<[document_id  |-> fields.document_id,
                  action_type  |-> fields.action_type,
                  old_status   |-> fields.old_status,
                  new_status   |-> fields.new_status,
                  performed_by |-> fields.performed_by,
                  remarks      |-> fields.remarks,
                  created_at   |-> Len(document_history) + 1]>>]

\* supabase.from('document_history').insert(fields) as uid; created_at is
\* DEFAULT now(), which grows with every insert
InsertHistory(uid, fields) ==
    LET row == [document_id  |-> fields.document_id,
                action_type  |-> fields.action_type,
                old_status   |-> fields.old_status,
                new_status   |-> fields.new_status,
                performed_by |-> fields.performed_by,
                remarks      |-> fields.remarks,
                created_at   |-> Len(document_history) + 1]
    IN  IF ~HistoryInsertPolicy(uid, row)
        THEN [error |-> TRUE, table |-> document_history]
        ELSE [error |-> FALSE, table |-> Append(document_history, row)]

\* supabase.from('documents').select('*').eq('id', id).maybeSingle() as uid
SelectDocument(uid, id) ==
    LET hit == {i \in DOMAIN documents :
                    documents[i].id = id /\ DocumentsSelectPolicy(uid, documents[i])}
    IN  IF hit = {} THEN <<>> ELSE <<documents[CHOOSE i \in hit : TRUE]>>

\* the rows of a set ordered by created_at, latest first
RECURSIVE OrderByCreatedAtDesc(_)
OrderByCreatedAtDesc(rows) ==
    IF rows = {} THEN <<>>
    ELSE LET latest == CHOOSE r \in rows :
                            \A q \in rows : q.created_at <= r.created_at
         IN  <<latest>> \o OrderByCreatedAtDesc(rows \ {latest})

\* supabase.from('document_history').select(...).eq('document_id', id)
\*   .order('created_at', { ascending: false }) as uid
SelectHistory(uid, id) ==
    OrderByCreatedAtDesc({document_history[i] : i \in
        {j \in DOMAIN document_history :
            /\ document_history[j].document_id = id
            /\ HistorySelectPolicy(uid, document_history[j])}})

----------------------------------------------------------------------------
(* Policies and requests of the attachments *)

\* "Users can upload files to their documents"
DocumentFilesInsertPolicy(uid, row) ==
    /\ uid = row.uploaded_by
    /\ \E i \in DOMAIN documents :
        documents[i].id = row.document_id /\ documents[i].created_by = uid

\* "Authenticated users can upload document files": the first folder of the
\* path is the caller's id or the id of a document the caller created
StorageInsertPolicy(uid, path) ==
    \/ path.folder = uid
    \/ \E i \in DOMAIN documents :
        documents[i].id = path.folder /\ documents[i].created_by = uid

\* `${documentId}/${random}.${ext}`: a name no stored object has
NewObjectPath(id) == [folder |-> id, name |-> Cardinality(storage_objects) + 1]

\* an upload that reports success and stores nothing
UploadObjectLost(uid, path) ==
    [error |-> FALSE, data |-> <<path>>, bucket |-> storage_objects]

\* supabase.storage.from('document-files').upload(path, file) as uid
UploadObject(uid, path) ==
    IF ~StorageInsertPolicy(uid, path) \/ path \in storage_objects
    THEN [error |-> TRUE, data |-> <<>>, bucket |-> storage_objects]
    ELSE [error |-> FALSE, data |-> <<path>>, bucket |-> storage_objects \cup {path}]

\* supabase.from('document_files').insert(fields) as uid
InsertDocumentFile(uid, fields) ==
    IF ~DocumentFilesInsertPolicy(uid, fields)
    THEN [error |-> TRUE, table |-> document_files]
    ELSE [error |-> FALSE, table |-> Append(document_files, fields)]


----------------------------------------------------------------------------
(* Session state *)

\* nothing closed over: no handler is running
NoCapture == [status |-> NULL, reason |-> <<>>, id |-> NULL, index |-> 0, path |-> <<>>]

\* DocumentDetail's state as useState initialises it; loads names the loads
\* the mount effect has started
DetailState(s, loads) ==
    /\ document' = [document EXCEPT ![s] = <<>>]
    /\ history' = [history EXCEPT ![s] = <<>>]
    /\ loading' = [loading EXCEPT ![s] = TRUE]
    /\ actionLoading' = [actionLoading EXCEPT ![s] = FALSE]
    /\ rejectionReason' = [rejectionReason EXCEPT ![s] = <<>>]
    /\ showRejectModal' = [showRejectModal EXCEPT ![s] = FALSE]
    /\ mountLoads' = [mountLoads EXCEPT ![s] = loads]

\* CreateDocument's state as useState initialises it
CreateState(s) ==
    /\ files' = [files EXCEPT ![s] = <<>>]
    /\ createLoading' = [createLoading EXCEPT ![s] = FALSE]
    /\ uploading' = [uploading EXCEPT ![s] = FALSE]

\* the page components of session s are (re)mounted for page and id as uid
Mount(s, uid, page, id) ==
    /\ CreateState(s)
    /\ DetailState(s, IF uid # NULL /\ page = "document-detail" /\ id # NULL
                      THEN {"loadDocument", "loadHistory"} ELSE {})

\* the tables and the bucket are empty
InitDb ==
    /\ documents = <<>>
    /\ document_history = <<>>
    /\ document_files = <<>>
    /\ storage_objects = {}

\* no session has resolved its identity; no page is mounted
InitSessions ==
    /\ user = [s \in Sessions |-> NULL]
    /\ authLoading = [s \in Sessions |-> TRUE]
    /\ currentPage = [s \in Sessions |-> "dashboard"]
    /\ documentId = [s \in Sessions |-> NULL]
    /\ document = [s \in Sessions |-> <<>>]
    /\ history = [s \in Sessions |-> <<>>]
    /\ loading = [s \in Sessions |-> TRUE]
    /\ actionLoading = [s \in Sessions |-> FALSE]
    /\ rejectionReason = [s \in Sessions |-> <<>>]
    /\ showRejectModal = [s \in Sessions |-> FALSE]
    /\ mountLoads = [s \in Sessions |-> {}]
    /\ files = [s \in Sessions |-> <<>>]
    /\ createLoading = [s \in Sessions |-> FALSE]
    /\ uploading = [s \in Sessions |-> FALSE]
    /\ pc = [s \in Sessions |-> "idle"]
    /\ captured = [s \in Sessions |-> NoCapture]
    /\ lastAlert = [s \in Sessions |-> ""]
    /\ authMode = [s \in Sessions |-> "login"]
    /\ background = [s \in Sessions |-> <<>>]

\* no products, no movements; InventoryDashboard as useState initialises it
InitInventory ==
    /\ products = <<>>
    /\ stock_movements = <<>>
    /\ stats = [totalSKUs |-> 0, totalQuantity |-> 0, lowStockItems |-> 0]
    /\ lowStockAlerts = <<>>
    /\ inventoryLoading = TRUE

\* ProductCatalog as useState initialises it
InitCatalog ==
    /\ catalogLoading = TRUE
    /\ catalogProducts = <<>>
    /\ catalogSearchTerm = <<>>
    /\ filteredProducts = <<>>

\* DocumentList as useState initialises it
InitList ==
    /\ listDocuments = <<>>
    /\ searchTerm = <<>>
    /\ statusFilter = "all"
    /\ typeFilter = "all"
    /\ filteredDocs = <<>>

InitViews == InitInventory /\ InitCatalog /\ InitList

Init == InitDb /\ InitSessions /\ InitViews

\* the positions of a handler between its status update and its history insert
HistoryInsertPositions ==
    {"submit:insertHistory", "approve:insertHistory", "reject:insertHistory"}

\* history inserts that running handlers still have to issue
PendingHistoryInserts ==
    Cardinality({s \in Sessions : pc[s] \in
        HistoryInsertPositions \cup {"create:insertHistory"}})
    + Cardinality({s \in Sessions :
        \E k \in DOMAIN background[s] :
            background[s][k].pc \in HistoryInsertPositions})

\* a handler that inserts a history row may start
HistoryHasRoom == Len(document_history) + PendingHistoryInserts < MaxHistory

----------------------------------------------------------------------------
(* The session provider and App *)

\* AppContent renders Layout and a page: past the loading guard, with an
\* identity
AppRendered(s) == ~authLoading[s] /\ user[s] # NULL

\* the pages of the Sidebar's menu
MenuPages == {"dashboard", "documents", "reports", "inventory", "products",
              "stock-movements"}

\* renderPage: the page component for currentPage
renderPage(s) ==
    IF currentPage[s] = "document-detail" /\ documentId[s] # NULL
    THEN "DocumentDetail"
    ELSE IF currentPage[s] = "create-document" THEN "CreateDocument"
    ELSE CASE currentPage[s] = "dashboard" -> "Dashboard"
           [] currentPage[s] = "documents" -> "DocumentList"
           [] currentPage[s] = "inventory" -> "InventoryDashboard"
           [] currentPage[s] = "products" -> "ProductCatalog"
           [] currentPage[s] = "stock-movements" -> "StockMovement"
           [] currentPage[s] = "reports" -> "Reports"
           [] OTHER -> "Dashboard"

\* an AppContent without its two guards
ScreenUnguarded(s) == renderPage(s)

\* what AppContent returns
Screen(s) ==
    IF authLoading[s] THEN "Loading..."
    ELSE IF user[s] = NULL
         THEN IF authMode[s] = "register" THEN "Register" ELSE "Login"
         ELSE renderPage(s)

\* the user can act on the rendered page: no handler runs, no alert is up
Interactive(s) == AppRendered(s) /\ pc[s] = "idle"

\* the session provider finishes loading, with the stored identity if any
authResolve(s, uid) ==
    /\ authLoading[s]
    /\ authLoading' = [authLoading EXCEPT ![s] = FALSE]
    /\ user' = [user EXCEPT ![s] = uid]
    /\ Mount(s, uid, currentPage[s], documentId[s])
    /\ UNCHANGED <<dbVars, currentPage, documentId, runVars>>
    /\ UNCHANGED viewVars

\* Login handleSubmit -> signIn succeeds as uid
signIn(s, uid) ==
    /\ ~authLoading[s] /\ user[s] = NULL /\ pc[s] = "idle"
    /\ authMode[s] = "login"
    /\ user' = [user EXCEPT ![s] = uid]
    /\ Mount(s, uid, currentPage[s], documentId[s])
    /\ UNCHANGED <<dbVars, authLoading, currentPage, documentId, runVars>>
    /\ UNCHANGED viewVars

\* Sidebar -> signOut(): the identity goes, App keeps currentPage and
\* selectedDocumentId, the page components are unmounted
signOut(s) ==
    /\ Interactive(s)
    /\ user' = [user EXCEPT ![s] = NULL]
    /\ Mount(s, NULL, currentPage[s], documentId[s])
    /\ UNCHANGED <<dbVars, authLoading, currentPage, documentId, runVars,
                   authMode, inventoryVars, listVars,
                   background>>

\* Login onRegisterClick
onRegisterClick(s) ==
    /\ Screen(s) = "Login"
    /\ authMode' = [authMode EXCEPT ![s] = "register"]
    /\ UNCHANGED <<dbVars, appVars, detailVars, createVars, runVars,
                   inventoryVars, listVars,
                   background>>

\* Register onLoginClick
onLoginClick(s) ==
    /\ Screen(s) = "Register"
    /\ authMode' = [authMode EXCEPT ![s] = "login"]
    /\ UNCHANGED <<dbVars, appVars, detailVars, createVars, runVars,
                   inventoryVars, listVars,
                   background>>

\* Sidebar -> handleNavigate(page)
handleNavigate(s, page) ==
    /\ Interactive(s)
    /\ currentPage[s] # page
    /\ currentPage' = [currentPage EXCEPT ![s] = page]
    /\ Mount(s, user[s], page, documentId[s])
    /\ UNCHANGED <<dbVars, user, authLoading, documentId, runVars>>
    /\ UNCHANGED viewVars

\* DocumentList onCreateNew
onCreateNew(s) ==
    /\ Interactive(s)
    /\ currentPage[s] = "documents"
    /\ currentPage' = [currentPage EXCEPT ![s] = "create-document"]
    /\ Mount(s, user[s], "create-document", documentId[s])
    /\ UNCHANGED <<dbVars, user, authLoading, documentId, runVars>>
    /\ UNCHANGED viewVars

\* DocumentList onViewDocument(id) on a row the list shows (a row the select
\* policy lets the user read); mounting DocumentDetail starts loadDocument
\* and loadHistory
onViewDocument(s, id) ==
    /\ Interactive(s)
    /\ currentPage[s] = "documents"
    /\ \E i \in DOMAIN documents :
        documents[i].id = id /\ DocumentsSelectPolicy(user[s], documents[i])
    /\ currentPage' = [currentPage EXCEPT ![s] = "document-detail"]
    /\ documentId' = [documentId EXCEPT ![s] = id]
    /\ Mount(s, user[s], "document-detail", id)
    /\ UNCHANGED <<dbVars, user, authLoading, runVars>>
    /\ UNCHANGED viewVars

\* DocumentDetail onBack
onBackFromDetail(s) ==
    /\ Interactive(s)
    /\ currentPage[s] = "document-detail"
    /\ currentPage' = [currentPage EXCEPT ![s] = "documents"]
    /\ documentId' = [documentId EXCEPT ![s] = NULL]
    /\ Mount(s, user[s], "documents", NULL)
    /\ UNCHANGED <<dbVars, user, authLoading, runVars>>
    /\ UNCHANGED viewVars

\* CreateDocument onBack
onBackFromCreate(s) ==
    /\ Interactive(s)
    /\ currentPage[s] = "create-document"
    /\ currentPage' = [currentPage EXCEPT ![s] = "documents"]
    /\ Mount(s, user[s], "documents", documentId[s])
    /\ UNCHANGED <<dbVars, user, authLoading, documentId, runVars>>
    /\ UNCHANGED viewVars

\* the user closes the alert; the handler that raised it runs to its end
\* (the finally blocks: setActionLoading(false), setLoading(false))
dismissAlert(s) ==
    /\ pc[s] = "alert"
    /\ lastAlert' = [lastAlert EXCEPT ![s] = ""]
    /\ pc' = [pc EXCEPT ![s] = "idle"]
    /\ actionLoading' = [actionLoading EXCEPT ![s] = FALSE]
    /\ createLoading' = [createLoading EXCEPT ![s] = FALSE]
    /\ UNCHANGED <<dbVars, appVars, document, history, loading, rejectionReason,
                   showRejectModal, mountLoads, files, uploading, captured>>
    /\ UNCHANGED viewVars

----------------------------------------------------------------------------
(* DocumentDetail: loads *)

\* loadDocument: on an error the state document keeps its value
loadDocument(s, failed) ==
    /\ document' = [document EXCEPT ![s] =
            IF failed THEN @ ELSE SelectDocument(user[s], documentId[s])]
    /\ loading' = [loading EXCEPT ![s] = FALSE]

\* loadHistory: on an error the state history keeps its value
loadHistory(s, failed) ==
    history' = [history EXCEPT ![s] =
            IF failed THEN @ ELSE SelectHistory(user[s], documentId[s])]

\* the mount effect's loadDocument completes
mountLoadDocument(s, failed) ==
    /\ "loadDocument" \in mountLoads[s]
    /\ pc[s] # "alert"
    /\ loadDocument(s, failed)
    /\ mountLoads' = [mountLoads EXCEPT ![s] = @ \ {"loadDocument"}]
    /\ UNCHANGED <<dbVars, appVars, history, actionLoading, rejectionReason,
                   showRejectModal, createVars, runVars>>
    /\ UNCHANGED viewVars

\* the mount effect's loadHistory completes
mountLoadHistory(s, failed) ==
    /\ "loadHistory" \in mountLoads[s]
    /\ pc[s] # "alert"
    /\ loadHistory(s, failed)
    /\ mountLoads' = [mountLoads EXCEPT ![s] = @ \ {"loadHistory"}]
    /\ UNCHANGED <<dbVars, appVars, document, loading, actionLoading,
                   rejectionReason, showRejectModal, createVars, runVars>>
    /\ UNCHANGED viewVars

----------------------------------------------------------------------------
(* DocumentDetail: what the rendered page offers *)

\* the loaded copy of the document (only read where it is not null)
Doc(s) == document[s][1]

\* the page is past its "Loading document..." guard
DetailRendered(s) ==
    /\ AppRendered(s)
    /\ currentPage[s] = "document-detail"
    /\ ~loading[s]
    /\ document[s] # <<>>

canApprove(s) == Role(user[s]) = "Approver" \/ Role(user[s]) = "Admin"

canSubmit(s) ==
    document[s] # <<>> /\ Doc(s).created_by = user[s] /\ Doc(s).status = "Draft"

canEdit(s) ==
    document[s] # <<>> /\ Doc(s).created_by = user[s] /\ Doc(s).status = "Draft"

\* the Approve and Reject buttons are rendered
ApproveRejectOffered(s) ==
    DetailRendered(s) /\ canApprove(s) /\ Doc(s).status = "Pending"

\* the Submit for Approval button is rendered
SubmitOffered(s) == DetailRendered(s) /\ canSubmit(s)

\* the reject modal, which covers the page, is rendered
ModalRendered(s) == DetailRendered(s) /\ showRejectModal[s]

----------------------------------------------------------------------------
(* DocumentDetail: the workflow handlers *)

\* an approve that closes the document
ApprovePatchClosed == [status |-> "Closed"]

ApprovePatch == [status |-> "Approved"]

RejectPatch(reason) == [status |-> "Rejected", rejection_reason |-> reason]

SubmitPatch == [status |-> "Pending"]

\* a first part that does not look at the update's error and goes on
StatusUpdateIgnoringError(s, patch, failed, alertText, next) ==
    LET res == UpdateDocuments(user[s], documentId[s], patch)
    IN  /\ actionLoading' = [actionLoading EXCEPT ![s] = TRUE]
        /\ documents' = IF failed \/ res.error THEN documents ELSE res.table
        /\ pc' = [pc EXCEPT ![s] = next]
        /\ captured' = [captured EXCEPT ![s] =
                [NoCapture EXCEPT !.status = Doc(s).status,
                                  !.reason = rejectionReason'[s],
                                  !.id = documentId[s]]]
        /\ UNCHANGED lastAlert

\* the first part of a handler: setActionLoading(true), then the status
\* update; an error goes to the catch block, whose alert is then on screen
StatusUpdate(s, patch, failed, alertText, next) ==
    LET res == UpdateDocuments(user[s], documentId[s], patch)
    IN  /\ actionLoading' = [actionLoading EXCEPT ![s] = TRUE]
        /\ IF failed \/ res.error
           THEN /\ lastAlert' = [lastAlert EXCEPT ![s] = alertText]
                /\ pc' = [pc EXCEPT ![s] = "alert"]
                /\ UNCHANGED <<documents, captured>>
           ELSE /\ documents' = res.table
                /\ pc' = [pc EXCEPT ![s] = next]
                /\ captured' = [captured EXCEPT ![s] =
                        [NoCapture EXCEPT !.status = Doc(s).status,
                                          !.reason = rejectionReason'[s],
                                          !.id = documentId[s]]]
                /\ UNCHANGED lastAlert

\* Approve button -> handleApprove, up to its status update
handleApprove(s, failed) ==
    /\ pc[s] = "idle"
    /\ ApproveRejectOffered(s) /\ ~showRejectModal[s] /\ ~actionLoading[s]
    /\ HistoryHasRoom
    /\ UNCHANGED rejectionReason
    /\ StatusUpdate(s, ApprovePatch, failed,
                    "Failed to approve document. Please try again.",
                    "approve:insertHistory")
    /\ UNCHANGED <<document_history, document_files, storage_objects, appVars,
                   document, history, loading, showRejectModal, mountLoads,
                   createVars>>
    /\ UNCHANGED viewVars

\* Reject button -> setShowRejectModal(true)
openRejectModal(s) ==
    /\ pc[s] = "idle"
    /\ ApproveRejectOffered(s) /\ ~showRejectModal[s] /\ ~actionLoading[s]
    /\ showRejectModal' = [showRejectModal EXCEPT ![s] = TRUE]
    /\ UNCHANGED <<dbVars, appVars, document, history, loading, actionLoading,
                   rejectionReason, mountLoads, createVars, runVars>>
    /\ UNCHANGED viewVars

\* modal Cancel button -> setShowRejectModal(false)
cancelRejectModal(s) ==
    /\ pc[s] = "idle"
    /\ ModalRendered(s)
    /\ showRejectModal' = [showRejectModal EXCEPT ![s] = FALSE]
    /\ UNCHANGED <<dbVars, appVars, document, history, loading, actionLoading,
                   rejectionReason, mountLoads, createVars, runVars>>
    /\ UNCHANGED viewVars

\* the textarea's onChange leaves text in rejectionReason, then Confirm
\* Rejection -> handleReject, up to its status update
handleReject(s, text, failed) ==
    /\ pc[s] = "idle"
    /\ ModalRendered(s) /\ ~actionLoading[s]
    /\ HistoryHasRoom \/ ~Truthy(Trim(text))
    /\ rejectionReason' = [rejectionReason EXCEPT ![s] = text]
    /\ IF document[s] = <<>> \/ ~Truthy(Trim(text))
       THEN /\ lastAlert' = [lastAlert EXCEPT ![s] =
                                "Please provide a rejection reason"]
            /\ pc' = [pc EXCEPT ![s] = "alert"]
            /\ UNCHANGED <<documents, actionLoading, captured>>
       ELSE StatusUpdate(s, RejectPatch(text), failed,
                         "Failed to reject document. Please try again.",
                         "reject:insertHistory")
    /\ UNCHANGED <<document_history, document_files, storage_objects, appVars,
                   document, history, loading, showRejectModal, mountLoads,
                   createVars>>
    /\ UNCHANGED viewVars

\* Submit for Approval button -> handleSubmitForApproval, up to its status
\* update
handleSubmitForApproval(s, failed) ==
    /\ pc[s] = "idle"
    /\ SubmitOffered(s) /\ ~showRejectModal[s] /\ ~actionLoading[s]
    /\ HistoryHasRoom
    /\ UNCHANGED rejectionReason
    /\ StatusUpdate(s, SubmitPatch, failed,
                    "Failed to submit document. Please try again.",
                    "submit:insertHistory")
    /\ UNCHANGED <<document_history, document_files, storage_objects, appVars,
                   document, history, loading, showRejectModal, mountLoads,
                   createVars>>
    /\ UNCHANGED viewVars

\* the history insert of a handler; its result is not looked at, so an
\* error changes nothing and the handler goes on
HistoryInsert(s, fields, failed) ==
    LET res == InsertHistory(user[s], fields)
    IN  document_history' = IF failed THEN document_history ELSE res.table

\* handleApprove: the history insert
approveInsertHistory(s, failed) ==
    /\ pc[s] = "approve:insertHistory"
    /\ HistoryInsert(s, [document_id  |-> captured[s].id,
                         action_type  |-> "Approved",
                         old_status   |-> captured[s].status,
                         new_status   |-> "Approved",
                         performed_by |-> user[s],
                         remarks      |-> <<"Document approved">>], failed)
    /\ pc' = [pc EXCEPT ![s] = "loadDocument"]
    /\ UNCHANGED <<documents, document_files, storage_objects, appVars,
                   detailVars, createVars, captured, lastAlert>>
    /\ UNCHANGED viewVars

\* handleReject: the history insert, then setShowRejectModal(false) and
\* setRejectionReason('')
rejectInsertHistory(s, failed) ==
    /\ pc[s] = "reject:insertHistory"
    /\ HistoryInsert(s, [document_id  |-> captured[s].id,
                         action_type  |-> "Rejected",
                         old_status   |-> captured[s].status,
                         new_status   |-> "Rejected",
                         performed_by |-> user[s],
                         remarks      |-> captured[s].reason], failed)
    /\ showRejectModal' = [showRejectModal EXCEPT ![s] = FALSE]
    /\ rejectionReason' = [rejectionReason EXCEPT ![s] = <<>>]
    /\ pc' = [pc EXCEPT ![s] = "loadDocument"]
    /\ UNCHANGED <<documents, document_files, storage_objects, appVars,
                   document, history, loading, actionLoading, mountLoads,
                   createVars, captured, lastAlert>>
    /\ UNCHANGED viewVars

\* handleSubmitForApproval: the history insert
submitInsertHistory(s, failed) ==
    /\ pc[s] = "submit:insertHistory"
    /\ HistoryInsert(s, [document_id  |-> captured[s].id,
                         action_type  |-> "Submitted",
                         old_status   |-> captured[s].status,
                         new_status   |-> "Pending",
                         performed_by |-> user[s],
                         remarks      |-> <<"Submitted for approval">>], failed)
    /\ pc' = [pc EXCEPT ![s] = "loadDocument"]
    /\ UNCHANGED <<documents, document_files, storage_objects, appVars,
                   detailVars, createVars, captured, lastAlert>>
    /\ UNCHANGED viewVars

\* the three handlers: await loadDocument()
handlerLoadDocument(s, failed) ==
    /\ pc[s] = "loadDocument"
    /\ loadDocument(s, failed)
    /\ pc' = [pc EXCEPT ![s] = "loadHistory"]
    /\ UNCHANGED <<dbVars, appVars, history, actionLoading, rejectionReason,
                   showRejectModal, mountLoads, createVars, captured, lastAlert>>
    /\ UNCHANGED viewVars

\* a last step without the finally block
handlerLoadHistoryNoFinally(s, failed) ==
    /\ pc[s] = "loadHistory"
    /\ loadHistory(s, failed)
    /\ pc' = [pc EXCEPT ![s] = "idle"]
    /\ captured' = [captured EXCEPT ![s] = NoCapture]
    /\ UNCHANGED <<dbVars, appVars, document, loading, actionLoading,
                   rejectionReason, showRejectModal, mountLoads, createVars,
                   lastAlert>>
    /\ UNCHANGED viewVars

\* the three handlers: await loadHistory(), then the finally block
handlerLoadHistory(s, failed) ==
    /\ pc[s] = "loadHistory"
    /\ loadHistory(s, failed)
    /\ actionLoading' = [actionLoading EXCEPT ![s] = FALSE]
    /\ pc' = [pc EXCEPT ![s] = "idle"]
    /\ captured' = [captured EXCEPT ![s] = NoCapture]
    /\ UNCHANGED <<dbVars, appVars, document, loading, rejectionReason,
                   showRejectModal, mountLoads, createVars, lastAlert>>
    /\ UNCHANGED viewVars

----------------------------------------------------------------------------
(* CreateDocument *)

\* the form is rendered and its submit button is enabled
CreateOffered(s) ==
    /\ AppRendered(s)
    /\ currentPage[s] = "create-document"
    /\ ~createLoading[s] /\ ~uploading[s]

\* handleFileSelect / handleDrop: one more attachment, status pending
handleFileSelect(s, name) ==
    /\ Interactive(s)
    /\ currentPage[s] = "create-document"
    /\ Len(files[s]) < MaxFiles
    /\ files' = [files EXCEPT ![s] = Append(@, [name |-> name, status |-> "pending"])]
    /\ UNCHANGED <<dbVars, appVars, detailVars, createLoading, uploading, runVars>>
    /\ UNCHANGED viewVars

\* removeFile(id)
removeFile(s, k) ==
    /\ Interactive(s)
    /\ currentPage[s] = "create-document"
    /\ k \in DOMAIN files[s]
    /\ files' = [files EXCEPT ![s] =
                    SubSeq(@, 1, k - 1) \o SubSeq(@, k + 1, Len(@))]
    /\ UNCHANGED <<dbVars, appVars, detailVars, createLoading, uploading, runVars>>
    /\ UNCHANGED viewVars

\* a form that creates its documents as Pending
CreateStatusPending == "Pending"

\* the status the form gives a new document
CreateStatus == "Draft"

\* the end of handleSubmit's try block: onSuccess() (App: setCurrentPage
\* ('documents'), which unmounts the form, then the alert)
CreateDone(s) ==
    /\ currentPage' = [currentPage EXCEPT ![s] = "documents"]
    /\ lastAlert' = [lastAlert EXCEPT ![s] = "Document created successfully!"]
    /\ files' = [files EXCEPT ![s] = <<>>]
    /\ uploading' = [uploading EXCEPT ![s] = FALSE]
    /\ pc' = [pc EXCEPT ![s] = "alert"]
    /\ captured' = [captured EXCEPT ![s] = NoCapture]
    /\ UNCHANGED createLoading

\* form submit -> handleSubmit, up to the document insert; an error goes to
\* the catch block, whose alert is then on screen
handleSubmit(s, number, failed) ==
    /\ pc[s] = "idle"
    /\ CreateOffered(s)
    /\ HistoryHasRoom
    /\ createLoading' = [createLoading EXCEPT ![s] = TRUE]
    /\ LET res == InsertDocument(user[s], [document_number |-> number,
                                           status          |-> CreateStatus,
                                           created_by      |-> user[s]])
       IN  IF failed \/ res.error
           THEN /\ lastAlert' = [lastAlert EXCEPT ![s] =
                        "Failed to create document. Please try again."]
                /\ pc' = [pc EXCEPT ![s] = "alert"]
                /\ UNCHANGED <<documents, captured>>
           ELSE /\ documents' = res.table
                /\ pc' = [pc EXCEPT ![s] = "create:insertHistory"]
                /\ captured' = [captured EXCEPT ![s] =
                        [NoCapture EXCEPT !.id = res.data[1].id]]
                /\ UNCHANGED lastAlert
    /\ UNCHANGED <<document_history, document_files, storage_objects, appVars,
                   detailVars, files, uploading>>
    /\ UNCHANGED viewVars

\* handleSubmit: the Created history insert (its result is not looked at);
\* then uploadFilesToStorage if there are files, else the end of the handler
createInsertHistory(s, failed) ==
    /\ pc[s] = "create:insertHistory"
    /\ HistoryInsert(s, [document_id  |-> captured[s].id,
                         action_type  |-> "Created",
                         old_status   |-> NULL,
                         new_status   |-> CreateStatus,
                         performed_by |-> user[s],
                         remarks      |-> <<"Document created">>], failed)
    /\ IF Len(files[s]) > 0
       THEN /\ uploading' = [uploading EXCEPT ![s] = TRUE]
            /\ files' = [files EXCEPT ![s][1].status = "uploading"]
            /\ pc' = [pc EXCEPT ![s] = "create:upload"]
            /\ captured' = [captured EXCEPT ![s].index = 1]
            /\ UNCHANGED <<currentPage, createLoading, lastAlert>>
       ELSE CreateDone(s)
    /\ UNCHANGED <<documents, document_files, storage_objects, user, authLoading,
                   documentId, detailVars>>
    /\ UNCHANGED viewVars

\* a loop that lets the error of a file reach handleSubmit's catch block
NextFileThrowing(s, k, status) ==
    IF status = "error"
    THEN /\ files' = [files EXCEPT ![s][k].status = status]
         /\ lastAlert' = [lastAlert EXCEPT ![s] =
                "Failed to create document. Please try again."]
         /\ pc' = [pc EXCEPT ![s] = "alert"]
         /\ captured' = [captured EXCEPT ![s] = NoCapture]
         /\ uploading' = [uploading EXCEPT ![s] = FALSE]
         /\ UNCHANGED <<currentPage, createLoading>>
    ELSE IF k < Len(files[s])
    THEN /\ files' = [files EXCEPT ![s][k].status = status,
                                   ![s][k + 1].status = "uploading"]
         /\ pc' = [pc EXCEPT ![s] = "create:upload"]
         /\ captured' = [captured EXCEPT ![s].index = k + 1, ![s].path = <<>>]
         /\ UNCHANGED <<currentPage, createLoading, uploading, lastAlert>>
    ELSE CreateDone(s)

\* uploadFilesToStorage: the loop goes on to the file after index k, or ends
\* (setUploading(false)) and with it handleSubmit
NextFile(s, k, status) ==
    IF k < Len(files[s])
    THEN /\ files' = [files EXCEPT ![s][k].status = status,
                                   ![s][k + 1].status = "uploading"]
         /\ pc' = [pc EXCEPT ![s] = "create:upload"]
         /\ captured' = [captured EXCEPT ![s].index = k + 1, ![s].path = <<>>]
         /\ UNCHANGED <<currentPage, createLoading, uploading, lastAlert>>
    ELSE CreateDone(s)

\* uploadFilesToStorage: the blob upload of the current file
createUpload(s, failed) ==
    /\ pc[s] = "create:upload"
    /\ LET res == UploadObject(user[s], NewObjectPath(captured[s].id))
       IN  IF failed \/ res.error
           THEN /\ UNCHANGED storage_objects
                /\ NextFile(s, captured[s].index, "error")
           ELSE /\ storage_objects' = res.bucket
                /\ pc' = [pc EXCEPT ![s] = "create:insertFile"]
                /\ captured' = [captured EXCEPT ![s].path = res.data]
                /\ UNCHANGED <<currentPage, createVars, lastAlert>>
    /\ UNCHANGED <<documents, document_history, document_files, user, authLoading,
                   documentId, detailVars>>
    /\ UNCHANGED viewVars

\* uploadFilesToStorage: the document_files insert of the current file
createInsertFile(s, failed) ==
    /\ pc[s] = "create:insertFile"
    /\ LET k == captured[s].index
           res == InsertDocumentFile(user[s],
                        [document_id |-> captured[s].id,
                         file_name   |-> files[s][k].name,
                         file_url    |-> captured[s].path[1],
                         uploaded_by |-> user[s]])
       IN  IF failed \/ res.error
           THEN /\ UNCHANGED document_files
                /\ NextFile(s, k, "error")
           ELSE /\ document_files' = res.table
                /\ NextFile(s, k, "completed")
    /\ UNCHANGED <<documents, document_history, storage_objects, user, authLoading,
                   documentId, detailVars>>
    /\ UNCHANGED viewVars

----------------------------------------------------------------------------
(* Specifications *)

\* the session gets its identity and keeps it
AuthStep(s) ==
    \/ \E uid \in Users \cup {NULL} : authResolve(s, uid)
    \/ \E uid \in Users : signIn(s, uid)

\* moving between pages, closing alerts: the user goes from the dashboard to
\* the document list and leaves the pages below it by their Back buttons
AppStep(s) ==
    \/ currentPage[s] = "dashboard" /\ handleNavigate(s, "documents")
    \/ onCreateNew(s)
    \/ \E i \in DOMAIN documents : onViewDocument(s, documents[i].id)
    \/ onBackFromDetail(s)
    \/ onBackFromCreate(s)
    \/ dismissAlert(s)

\* DocumentDetail
DetailStep(s, failed) ==
    \/ mountLoadDocument(s, failed)
    \/ mountLoadHistory(s, failed)
    \/ handleApprove(s, failed)
    \/ openRejectModal(s)
    \/ cancelRejectModal(s)
    \/ \E text \in ReasonInputs : handleReject(s, text, failed)
    \/ handleSubmitForApproval(s, failed)
    \/ approveInsertHistory(s, failed)
    \/ rejectInsertHistory(s, failed)
    \/ submitInsertHistory(s, failed)
    \/ handlerLoadDocument(s, failed)
    \/ handlerLoadHistory(s, failed)

\* CreateDocument without attachments
CreateStep(s, failed) ==
    \/ \E number \in DocumentNumbers : handleSubmit(s, number, failed)
    \/ createInsertHistory(s, failed)

\* CreateDocument's attachments
FileStep(s, failed) ==
    \/ \E name \in SelectableFiles : handleFileSelect(s, name)
    \/ \E k \in 1..MaxFiles : removeFile(s, k)
    \/ createUpload(s, failed)
    \/ createInsertFile(s, failed)

\* one browser session; every backend call can fail
Next ==
    \E failed \in BOOLEAN :
        \/ AuthStep("s1")
        \/ AppStep("s1")
        \/ DetailStep("s1", failed)
        \/ CreateStep("s1", failed)
        \/ FileStep("s1", failed)

Spec == Init /\ [][Next]_vars

\* two browser sessions that stay signed in, attach no files and whose
\* backend calls all succeed
NextTwoSessions ==
    \E s \in Sessions :
        \/ AuthStep(s)
        \/ AppStep(s)
        \/ DetailStep(s, FALSE)
        \/ CreateStep(s, FALSE)

SpecTwoSessions == Init /\ [][NextTwoSessions]_vars

----------------------------------------------------------------------------
(* Properties *)

\* signing in and out and moving between the pages, in two sessions
NextAuth ==
    \E s \in Sessions :
        \/ AuthStep(s)
        \/ signOut(s)
        \/ onRegisterClick(s)
        \/ onLoginClick(s)
        \/ \E page \in MenuPages : handleNavigate(s, page)
        \/ onCreateNew(s)
        \/ onBackFromCreate(s)

SpecAuth == Init /\ [][NextAuth]_vars

\* the values of documents.status the workflow uses
Statuses == {"Draft", "Pending", "Approved", "Rejected", "Closed"}

\* one Draft document, as a create leaves it, by any creator
InitPolicy ==
    /\ documents \in {<<[id               |-> DocumentIds[1],
                         document_number  |-> n,
                         status           |-> "Draft",
                         created_by       |-> u,
                         approver_id      |-> NULL,
                         rejection_reason |-> NullText]>> :
                        n \in DocumentNumbers, u \in Users}
    /\ document_history = <<>>
    /\ document_files = <<>>
    /\ storage_objects = {}
    /\ InitSessions
    /\ InitViews

\* an UPDATE of documents by an authenticated user through the data API
apiUpdate(uid, patch) ==
    /\ documents' = UpdateDocuments(uid, documents[1].id, patch).table
    /\ UNCHANGED <<document_history, document_files, storage_objects, appVars,
                   detailVars, createVars, runVars, viewVars>>

\* the UPDATE policies of documents under any request of any user
NextPolicy ==
    \E uid \in Users :
        \/ \E st \in Statuses : apiUpdate(uid, [status |-> st])
        \/ \E a \in Users \cup {NULL} : apiUpdate(uid, [approver_id |-> a])
        \/ \E r \in {NullText, <<"x">>} : apiUpdate(uid, [rejection_reason |-> r])

SpecPolicy == InitPolicy /\ [][NextPolicy]_vars

\* ---------------------------------------------------------------------
\* Inventory: the products table, the dashboard and the product catalog
\* ---------------------------------------------------------------------

\* products (rows of the table) that a model run holds at most
MaxProducts == 2

\* sku and name of the k-th product row; the names differ in their first
\* letter, which is lower case in each, so that ORDER BY name does not depend
\* on the collation
ProductSkus == <<<<"S", "1">>, <<"S", "2">>, <<"S", "3">>>>

ProductNames == <<<<"k", "B">>, <<"b", "o">>, <<"m">>>>

\* the stock_balances rows of one product, one per warehouse, in the order
\* the embedded select returns them (no ORDER BY: any order)
BalanceLists == {<<>>, <<0>>, <<1>>, <<2>>, <<1, 1>>, <<0, 2>>, <<2, 0>>}

ReorderPoints == {0, 1}

ProductRow(k, active, reorder, balances) ==
    [sku |-> ProductSkus[k], name |-> ProductNames[k], is_active |-> active,
     reorder_point |-> reorder, stock_balances |-> balances]

RECURSIVE ProductTablesOfLen(_)
ProductTablesOfLen(n) ==
    IF n = 0 THEN {<<>>}
    ELSE {Append(t, ProductRow(n, a, r, b)) :
            t \in ProductTablesOfLen(n - 1), a \in BOOLEAN,
            r \in ReorderPoints, b \in BalanceLists}

\* the contents the products table may have
ProductTables == UNION {ProductTablesOfLen(n) : n \in 0..MaxProducts}

\* Array.prototype.reduce((sum, balance) => sum + (balance.quantity_on_hand || 0), 0)
RECURSIVE SumBalances(_)
SumBalances(balances) ==
    IF balances = <<>> THEN 0
    ELSE balances[1] + SumBalances(Tail(balances))

\* product.stock_balances?.[0]?.quantity_on_hand || 0
FirstBalance(product) ==
    IF product.stock_balances = <<>> THEN 0 ELSE product.stock_balances[1]

\* the dashboard's test: quantity <= product.reorder_point
IsLowStock(product) == FirstBalance(product) <= product.reorder_point

\* totalQuantity += quantity over the rows
RECURSIVE SumFirstBalances(_)
SumFirstBalances(rows) ==
    IF rows = <<>> THEN 0
    ELSE FirstBalance(rows[1]) + SumFirstBalances(Tail(rows))

\* the element alerts.push adds for a product
AlertOf(product) ==
    [product_name |-> product.name, sku |-> product.sku,
     quantity |-> FirstBalance(product), reorder_point |-> product.reorder_point]

\* the alerts array after products.forEach
AlertsOf(rows) ==
    LET low == SelectSeq(rows, IsLowStock)
    IN  [i \in DOMAIN low |-> AlertOf(low[i])]

\* InventoryDashboard.loadInventoryData; failed: the select returns no data
loadInventoryData(failed) ==
    /\ inventoryLoading
    /\ inventoryLoading' = FALSE
    /\ IF failed
       THEN UNCHANGED <<stats, lowStockAlerts>>
       ELSE LET rows == SelectSeq(products, LAMBDA p : p.is_active)
            IN  /\ stats' = [totalSKUs     |-> Len(rows),
                             totalQuantity |-> SumFirstBalances(rows),
                             lowStockItems |-> Len(AlertsOf(rows))]
                /\ lowStockAlerts' = AlertsOf(rows)
    /\ UNCHANGED <<products, stock_movements, catalogLoading, catalogProducts,
                   catalogSearchTerm, filteredProducts>>
    /\ UNCHANGED <<dbVars, appVars, detailVars, createVars, runVars, authMode,
                   listVars,
                   background>>

\* the letters of the product names, in sorting order
Alphabet == <<"B", "b", "k", "m", "o">>

CharRank(c) == CHOOSE i \in DOMAIN Alphabet : Alphabet[i] = c

\* text a sorts before text b
RECURSIVE TextLess(_, _)
TextLess(a, b) ==
    IF b = <<>> THEN FALSE
    ELSE IF a = <<>> THEN TRUE
    ELSE IF a[1] # b[1] THEN CharRank(a[1]) < CharRank(b[1])
    ELSE TextLess(Tail(a), Tail(b))

\* .order('name', { ascending: true })
OrderByName(rows) == SortSeq(rows, LAMBDA x, y : TextLess(x.name, y.name))

\* one element of productsWithDetails
WithDetails(product) ==
    [sku |-> product.sku, name |-> product.name,
     is_active |-> product.is_active, reorder_point |-> product.reorder_point,
     total_stock |-> SumBalances(product.stock_balances)]

\* the catalog's stock cell is red
IsRed(product) == product.total_stock <= product.reorder_point

\* String.prototype.toLowerCase, on the letters the model uses
LowerChar(c) ==
    CASE c = "A" -> "a"
      [] c = "B" -> "b"
      [] c = "K" -> "k"
      [] c = "P" -> "p"
      [] c = "S" -> "s"
      [] OTHER   -> c

ToLowerCase(t) == [i \in DOMAIN t |-> LowerChar(t[i])]

\* String.prototype.includes
Includes(t, sub) ==
    \E i \in 0..(Len(t) - Len(sub)) : SubSeq(t, i + 1, i + Len(sub)) = sub

\* ProductCatalog.filterProducts, as a function of its inputs
FilterProducts(rows, term) ==
    IF Truthy(term)
    THEN SelectSeq(rows, LAMBDA p :
            \/ Includes(ToLowerCase(p.name), ToLowerCase(term))
            \/ Includes(ToLowerCase(p.sku), ToLowerCase(term)))
    ELSE rows

\* ProductCatalog.loadProducts and the filter effect that follows it;
\* failed: the select returns an error
loadProducts(failed) ==
    /\ catalogLoading
    /\ catalogLoading' = FALSE
    /\ IF failed
       THEN UNCHANGED <<catalogProducts, filteredProducts>>
       ELSE LET rows == OrderByName(products)
                loaded == [i \in DOMAIN rows |-> WithDetails(rows[i])]
            IN  /\ catalogProducts' = loaded
                /\ filteredProducts' = FilterProducts(loaded, catalogSearchTerm)
    /\ UNCHANGED <<products, stock_movements, stats, lowStockAlerts,
                   inventoryLoading, catalogSearchTerm>>
    /\ UNCHANGED <<dbVars, appVars, detailVars, createVars, runVars, authMode,
                   listVars,
                   background>>

\* the terms typed into the catalog's search box
CatalogSearchTerms == {<<>>, <<"b">>, <<"S">>, <<"o">>}

\* ProductCatalog: the search input's onChange and the filter effect
setCatalogSearchTerm(term) ==
    /\ ~catalogLoading
    /\ term # catalogSearchTerm
    /\ catalogSearchTerm' = term
    /\ filteredProducts' = FilterProducts(catalogProducts, term)
    /\ UNCHANGED <<products, stock_movements, stats, lowStockAlerts,
                   inventoryLoading, catalogLoading, catalogProducts>>
    /\ UNCHANGED <<dbVars, appVars, detailVars, createVars, runVars, authMode,
                   listVars,
                   background>>

\* the inventory pages over any contents of the products table
InitInventoryData ==
    /\ InitDb
    /\ InitSessions
    /\ products \in ProductTables
    /\ stock_movements = <<>>
    /\ stats = [totalSKUs |-> 0, totalQuantity |-> 0, lowStockItems |-> 0]
    /\ lowStockAlerts = <<>>
    /\ inventoryLoading = TRUE
    /\ InitCatalog
    /\ InitList

NextInventory ==
    \/ \E failed \in BOOLEAN : loadInventoryData(failed)
    \/ \E failed \in BOOLEAN : loadProducts(failed)
    \/ \E term \in CatalogSearchTerms : setCatalogSearchTerm(term)

SpecInventory == InitInventoryData /\ [][NextInventory]_vars

\* ---------------------------------------------------------------------
\* DocumentList: the loaded documents and the three filters
\* ---------------------------------------------------------------------

\* documents that the list page has loaded at most
MaxListed == 2

\* document_number and supplier_name of a listed document
ListedTexts ==
    {[document_number |-> <<"P", "1">>, supplier_name |-> <<"A", "b">>],
     [document_number |-> <<"q", "2">>, supplier_name |-> <<"p">>]}

ListedStatuses == {"Draft", "Approved"}

ListedTypes == {"Invoice", "Purchase Order"}

\* the options of the status select and of the type select that the model uses
StatusOptions == {"all"} \cup ListedStatuses

TypeOptions == {"all"} \cup ListedTypes

\* the terms typed into the list's search box
SearchTerms == {<<>>, <<"p">>, <<"A">>, <<"2">>}

RECURSIVE ListedOfLen(_)
ListedOfLen(n) ==
    IF n = 0 THEN {<<>>}
    ELSE {Append(t, [id |-> n, document_number |-> x.document_number,
                     supplier_name |-> x.supplier_name, status |-> st,
                     document_type |-> ty]) :
            t \in ListedOfLen(n - 1), x \in ListedTexts,
            st \in ListedStatuses, ty \in ListedTypes}

\* what loadDocuments may have put into the documents state
ListedCollections == UNION {ListedOfLen(n) : n \in 0..MaxListed}

\* the search stage comparing the texts as they are
FilterSearchCaseSensitive(rows, term) ==
    IF Truthy(term)
    THEN SelectSeq(rows, LAMBDA doc :
            \/ Includes(doc.document_number, term)
            \/ Includes(doc.supplier_name, term))
    ELSE rows

\* filterDocuments, the search stage
FilterSearch(rows, term) ==
    IF Truthy(term)
    THEN SelectSeq(rows, LAMBDA doc :
            \/ Includes(ToLowerCase(doc.document_number), ToLowerCase(term))
            \/ Includes(ToLowerCase(doc.supplier_name), ToLowerCase(term)))
    ELSE rows

\* filterDocuments, the status stage
FilterStatus(rows, option) ==
    IF option # "all"
    THEN SelectSeq(rows, LAMBDA doc : doc.status = option)
    ELSE rows

\* filterDocuments, the type stage
FilterType(rows, option) ==
    IF option # "all"
    THEN SelectSeq(rows, LAMBDA doc : doc.document_type = option)
    ELSE rows

\* DocumentList.filterDocuments, as a function of its inputs
FilterDocuments(rows, term, status, type) ==
    FilterType(FilterStatus(FilterSearch(rows, term), status), type)

\* DocumentList: the search input's onChange and the filter effect
setSearchTerm(term) ==
    /\ term # searchTerm
    /\ searchTerm' = term
    /\ filteredDocs' = FilterDocuments(listDocuments, term, statusFilter, typeFilter)
    /\ UNCHANGED <<listDocuments, statusFilter, typeFilter>>
    /\ UNCHANGED <<dbVars, appVars, detailVars, createVars, runVars, authMode,
                   inventoryVars,
                   background>>

\* DocumentList: the status select's onChange and the filter effect
setStatusFilter(option) ==
    /\ option # statusFilter
    /\ statusFilter' = option
    /\ filteredDocs' = FilterDocuments(listDocuments, searchTerm, option, typeFilter)
    /\ UNCHANGED <<listDocuments, searchTerm, typeFilter>>
    /\ UNCHANGED <<dbVars, appVars, detailVars, createVars, runVars, authMode,
                   inventoryVars,
                   background>>

\* DocumentList: the type select's onChange and the filter effect
setTypeFilter(option) ==
    /\ option # typeFilter
    /\ typeFilter' = option
    /\ filteredDocs' = FilterDocuments(listDocuments, searchTerm, statusFilter, option)
    /\ UNCHANGED <<listDocuments, searchTerm, statusFilter>>
    /\ UNCHANGED <<dbVars, appVars, detailVars, createVars, runVars, authMode,
                   inventoryVars,
                   background>>

\* the list page after loadDocuments and its filter effect, over any loaded
\* collection, and the catalog page over a table of two products
InitListData ==
    /\ InitDb
    /\ InitSessions
    /\ products = <<ProductRow(1, TRUE, 0, <<1>>), ProductRow(2, TRUE, 1, <<>>)>>
    /\ stock_movements = <<>>
    /\ stats = [totalSKUs |-> 0, totalQuantity |-> 0, lowStockItems |-> 0]
    /\ lowStockAlerts = <<>>
    /\ inventoryLoading = TRUE
    /\ InitCatalog
    /\ listDocuments \in ListedCollections
    /\ searchTerm = <<>>
    /\ statusFilter = "all"
    /\ typeFilter = "all"
    /\ filteredDocs = listDocuments

NextLists ==
    \/ \E term \in SearchTerms : setSearchTerm(term)
    \/ \E option \in StatusOptions : setStatusFilter(option)
    \/ \E option \in TypeOptions : setTypeFilter(option)
    \/ \E failed \in BOOLEAN : loadProducts(failed)
    \/ \E term \in CatalogSearchTerms : setCatalogSearchTerm(term)

SpecLists == InitListData /\ [][NextLists]_vars

\* ---------------------------------------------------------------------
\* Interruption: the browser tab is reloaded
\* ---------------------------------------------------------------------

\* a reload during which the browser still sends the history row that the
\* interrupted approve was about to insert
reloadReplaying(s) ==
    /\ ~authLoading[s]
    /\ user' = [user EXCEPT ![s] = NULL]
    /\ authLoading' = [authLoading EXCEPT ![s] = TRUE]
    /\ currentPage' = [currentPage EXCEPT ![s] = "dashboard"]
    /\ documentId' = [documentId EXCEPT ![s] = NULL]
    /\ authMode' = [authMode EXCEPT ![s] = "login"]
    /\ Mount(s, NULL, "dashboard", NULL)
    /\ pc' = [pc EXCEPT ![s] = "idle"]
    /\ captured' = [captured EXCEPT ![s] = NoCapture]
    /\ lastAlert' = [lastAlert EXCEPT ![s] = ""]
    /\ IF pc[s] = "approve:insertHistory"
       THEN HistoryInsert(s, [document_id  |-> captured[s].id,
                              action_type  |-> "Approved",
                              old_status   |-> captured[s].status,
                              new_status   |-> "Approved",
                              performed_by |-> user[s],
                              remarks      |-> <<"Document approved">>], FALSE)
       ELSE UNCHANGED document_history
    /\ UNCHANGED <<documents, document_files, storage_objects, inventoryVars,
                   listVars,
                   background>>

\* the page is reloaded (or closed and opened again): whatever handler was
\* running is gone with its pending awaits, and every component starts again
\* from its useState defaults; the backend keeps what was written
reload(s) ==
    /\ ~authLoading[s]
    /\ user' = [user EXCEPT ![s] = NULL]
    /\ authLoading' = [authLoading EXCEPT ![s] = TRUE]
    /\ currentPage' = [currentPage EXCEPT ![s] = "dashboard"]
    /\ documentId' = [documentId EXCEPT ![s] = NULL]
    /\ authMode' = [authMode EXCEPT ![s] = "login"]
    /\ Mount(s, NULL, "dashboard", NULL)
    /\ pc' = [pc EXCEPT ![s] = "idle"]
    /\ captured' = [captured EXCEPT ![s] = NoCapture]
    /\ lastAlert' = [lastAlert EXCEPT ![s] = ""]
    /\ UNCHANGED <<dbVars, inventoryVars, listVars,
                   background>>

\* a detail page that tells a finished load without a row from a running one
DetailViewNotFound(s) ==
    IF loading[s] THEN "Loading document..."
    ELSE IF document[s] = <<>> THEN "Document not found"
    ELSE "Document"

\* what DocumentDetail returns
DetailView(s) ==
    IF loading[s] \/ document[s] = <<>> THEN "Loading document..." ELSE "Document"

\* one session whose backend calls all succeed, that signs out and in again
\* and whose page can be reloaded at any moment
NextInterrupt ==
    \/ AuthStep("s1")
    \/ AppStep("s1")
    \/ DetailStep("s1", FALSE)
    \/ CreateStep("s1", FALSE)
    \/ signOut("s1")
    \/ reload("s1")

SpecInterrupt == Init /\ [][NextInterrupt]_vars

\* one session that attaches no files; every backend call can fail
NextWorkflow ==
    \E failed \in BOOLEAN :
        \/ AuthStep("s1")
        \/ AppStep("s1")
        \/ DetailStep("s1", failed)
        \/ CreateStep("s1", failed)

\* that session when every awaited call returns and the user closes every
\* alert: whatever can happen next does happen
SpecWorkflowFair == Init /\ [][NextWorkflow]_vars /\ WF_vars(NextWorkflow)

\* ---------------------------------------------------------------------
\* Leaving the detail page while one of its handlers runs
\* ---------------------------------------------------------------------

\* handlers of unmounted pages that one session can have running
MaxBackground == 1

\* the history row that a handler at the given position inserts
WorkflowHistoryRow(position, cap, uid) ==
    CASE position = "submit:insertHistory" ->
            [document_id  |-> cap.id,
             action_type  |-> "Submitted",
             old_status   |-> cap.status,
             new_status   |-> "Pending",
             performed_by |-> uid,
             remarks      |-> <<"Submitted for approval">>]
      [] position = "approve:insertHistory" ->
            [document_id  |-> cap.id,
             action_type  |-> "Approved",
             old_status   |-> cap.status,
             new_status   |-> "Approved",
             performed_by |-> uid,
             remarks      |-> <<"Document approved">>]
      [] position = "reject:insertHistory" ->
            [document_id  |-> cap.id,
             action_type  |-> "Rejected",
             old_status   |-> cap.status,
             new_status   |-> "Rejected",
             performed_by |-> uid,
             remarks      |-> cap.reason]

\* the Back button of DocumentDetail, which is not disabled while a handler
\* runs: App unmounts the page, and the handler goes on with its awaits
leaveRunningAction(s) ==
    /\ AppRendered(s)
    /\ currentPage[s] = "document-detail"
    /\ pc[s] \in HistoryInsertPositions \cup {"loadDocument", "loadHistory"}
    /\ Len(background[s]) < MaxBackground
    /\ background' = [background EXCEPT ![s] =
            Append(@, [pc |-> pc[s], captured |-> captured[s]])]
    /\ currentPage' = [currentPage EXCEPT ![s] = "documents"]
    /\ documentId' = [documentId EXCEPT ![s] = NULL]
    /\ Mount(s, user[s], "documents", NULL)
    /\ pc' = [pc EXCEPT ![s] = "idle"]
    /\ captured' = [captured EXCEPT ![s] = NoCapture]
    /\ UNCHANGED <<dbVars, user, authLoading, lastAlert, authMode, inventoryVars,
                   listVars>>

\* the history insert of a handler whose page is unmounted
backgroundInsertHistory(s, failed) ==
    /\ background[s] # <<>>
    /\ background[s][1].pc \in HistoryInsertPositions
    /\ HistoryInsert(s, WorkflowHistoryRow(background[s][1].pc,
                                           background[s][1].captured, user[s]),
                     failed)
    /\ background' = [background EXCEPT ![s][1].pc = "loadDocument"]
    /\ UNCHANGED <<documents, document_files, storage_objects, appVars,
                   detailVars, createVars, runVars, authMode, inventoryVars,
                   listVars>>

\* the rest of a handler whose page is unmounted: its loads and its finally
\* block set the state of a component that is gone, which changes nothing
backgroundFinish(s) ==
    /\ background[s] # <<>>
    /\ background[s][1].pc \in {"loadDocument", "loadHistory"}
    /\ background' = [background EXCEPT ![s] = Tail(@)]
    /\ UNCHANGED <<dbVars, appVars, detailVars, createVars, runVars, authMode,
                   inventoryVars, listVars>>

\* one session whose backend calls all succeed and whose user may leave the
\* detail page while a handler runs
NextLeave ==
    \/ AuthStep("s1")
    \/ AppStep("s1")
    \/ DetailStep("s1", FALSE)
    \/ CreateStep("s1", FALSE)
    \/ leaveRunningAction("s1")
    \/ backgroundInsertHistory("s1", FALSE)
    \/ backgroundFinish("s1")

SpecLeave == Init /\ [][NextLeave]_vars

\* one session in which whatever can happen next does happen: awaited
\* requests return, and the user goes on using the pages
SpecFair == Spec /\ WF_vars(Next)

\* the stored row of documents with the given id
StoredRow(id) == documents[CHOOSE i \in DOMAIN documents : documents[i].id = id]

\* the last row of document_history
LastHistory == document_history[Len(document_history)]

\* session s takes the step from position from to position to
Moves(s, from, to) == pc[s] = from /\ pc'[s] = to

\* C1: a submitForApproval by the creator of a document whose stored status
\* is Draft, with both writes succeeding, leaves the stored status Pending and
\* appends exactly one history row: {Submitted, Draft -> Pending}.  The
\* handler's status update changes that row's status and nothing else, its
\* one insert appends that row, and its remaining steps write nothing.
C1_SubmitFromDraft ==
    [][\A s \in Sessions :
        /\ ( /\ Moves(s, "idle", "submit:insertHistory")
             /\ StoredRow(documentId[s]).status = "Draft"
             /\ StoredRow(documentId[s]).created_by = user[s] )
           => /\ StoredRow(documentId[s])' =
                    [StoredRow(documentId[s]) EXCEPT !.status = "Pending"]
              /\ Len(documents') = Len(documents)
              /\ document_history' = document_history
        /\ ( /\ Moves(s, "submit:insertHistory", "loadDocument")
             /\ document_history' # document_history )
           => document_history' = Append(document_history,
                    [document_id  |-> captured[s].id,
                     action_type  |-> "Submitted",
                     old_status   |-> "Draft",
                     new_status   |-> "Pending",
                     performed_by |-> user[s],
                     remarks      |-> <<"Submitted for approval">>,
                     created_at   |-> Len(document_history) + 1])
        /\ ( \/ Moves(s, "loadDocument", "loadHistory")
             \/ Moves(s, "loadHistory", "idle") )
           => UNCHANGED dbVars
    ]_vars

\* C1 witness: a creator's submit of a Draft document has made both writes
C1_Witness ==
    \E s \in Sessions :
        /\ pc[s] = "loadDocument"
        /\ captured[s].status = "Draft"
        /\ StoredRow(captured[s].id).created_by = user[s]
        /\ StoredRow(captured[s].id).status = "Pending"
        /\ Len(document_history) > 0
        /\ LastHistory.action_type = "Submitted"
        /\ LastHistory.old_status = "Draft"
        /\ LastHistory.new_status = "Pending"

\* C2: approve and reject are no-ops on a document whose stored status is
\* not Pending, also when the caller's loaded copy still shows Pending: the
\* handler's update changes no document row, and the handler does not go on
\* to insert a history row.
C2_NoOpUnlessPending ==
    [][\A s \in Sessions :
        ( /\ pc[s] = "idle"
          /\ pc'[s] # "idle"
          /\ ApproveRejectOffered(s)
          /\ StoredRow(documentId[s]).status # "Pending" )
        => /\ documents' = documents
           /\ pc'[s] \notin {"approve:insertHistory", "reject:insertHistory"}
    ]_vars

\* C3: a reject whose reason is empty or only whitespace issues no write: the
\* tables stay as they were, no handler step follows that could insert a
\* history row, and the user is told to provide a reason.
C3_BlankReasonRejected ==
    [][\A s \in Sessions :
        ( /\ pc[s] = "idle"
          /\ pc'[s] # "idle"
          /\ ModalRendered(s)
          /\ \A k \in DOMAIN rejectionReason'[s] :
                IsWhitespace(rejectionReason'[s][k]) )
        => /\ UNCHANGED dbVars
           /\ pc'[s] = "alert"
           /\ lastAlert'[s] = "Please provide a rejection reason"
    ]_vars

\* C3 witness: a reject with a whitespace-only reason has been turned down
C3_Witness ==
    \E s \in Sessions :
        /\ pc[s] = "alert"
        /\ lastAlert[s] = "Please provide a rejection reason"
        /\ rejectionReason[s] = <<" ">>
        /\ showRejectModal[s]

\* the history rows of a document, oldest first
HistoryOf(id) == SelectSeq(document_history, LAMBDA h : h.document_id = id)

\* no handler is between its status update and its history insert
NoHistoryInsertDue ==
    \A s \in Sessions : pc[s] \notin {"create:insertHistory", "submit:insertHistory",
                                      "approve:insertHistory", "reject:insertHistory"}

\* C4: end to end with all writes succeeding: after create the document is
\* Draft with one history row {Created, new_status Draft}; after the creator
\* submits it is Pending with two rows; after a user of role Approver or
\* Admin rejects with reason r it is Rejected with rejection_reason = r and
\* three rows, and the history as loaded (created_at descending) has the
\* Rejected row first.
C4_CreateSubmitReject ==
    NoHistoryInsertDue =>
    \A i \in DOMAIN documents :
        LET d == documents[i]
            h == HistoryOf(d.id)
        IN  /\ Len(h) = 1
               => /\ d.status = "Draft"
                  /\ h[1].action_type = "Created"
                  /\ h[1].old_status = NULL
                  /\ h[1].new_status = "Draft"
            /\ ( /\ Len(h) = 2
                 /\ h[2].action_type = "Submitted"
                 /\ h[2].performed_by = d.created_by )
               => d.status = "Pending"
            /\ ( /\ Len(h) = 3
                 /\ h[2].action_type = "Submitted"
                 /\ h[2].performed_by = d.created_by
                 /\ h[3].action_type = "Rejected"
                 /\ Role(h[3].performed_by) \in {"Approver", "Admin"} )
               => /\ d.status = "Rejected"
                  /\ d.rejection_reason = h[3].remarks
                  /\ LET loaded == SelectHistory(h[3].performed_by, d.id)
                     IN  Len(loaded) = 3 /\ loaded[1].action_type = "Rejected"

C6_ApproveFromPending ==
    [][\A s \in Sessions :
        /\ ( /\ Moves(s, "idle", "approve:insertHistory")
             /\ Role(user[s]) \in {"Approver", "Admin"}
             /\ StoredRow(documentId[s]).status = "Pending" )
           => StoredRow(documentId[s])'.status = "Approved"
        /\ ( /\ Moves(s, "approve:insertHistory", "loadDocument")
             /\ document_history' # document_history )
           => /\ Len(document_history') = Len(document_history) + 1
              /\ LastHistory'.action_type = "Approved"
              /\ LastHistory'.old_status = "Pending"
              /\ LastHistory'.new_status = "Approved"
    ]_vars

\* C7: for a caller of role Approver or Admin, a document whose stored
\* status is Pending and a non-empty reason r, reject sets the stored status
\* to Rejected and rejection_reason to r and appends the history row
\* {Rejected, Pending -> Rejected, remarks r}: the document and the history
\* carry the same reason.
C7_RejectFromPending ==
    [][\A s \in Sessions :
        /\ ( /\ Moves(s, "idle", "reject:insertHistory")
             /\ Role(user[s]) \in {"Approver", "Admin"}
             /\ StoredRow(documentId[s]).status = "Pending" )
           => /\ StoredRow(documentId[s])'.status = "Rejected"
              /\ StoredRow(documentId[s])'.rejection_reason = rejectionReason'[s]
        /\ ( /\ Moves(s, "reject:insertHistory", "loadDocument")
             /\ document_history' # document_history )
           => /\ Len(document_history') = Len(document_history) + 1
              /\ LastHistory'.action_type = "Rejected"
              /\ LastHistory'.old_status = "Pending"
              /\ LastHistory'.new_status = "Rejected"
              /\ LastHistory'.remarks = captured[s].reason
    ]_vars

\* C8: rejection_reason is non-null only if status = Rejected; no sequence
\* of reject and approve leaves an Approved document with a rejection_reason.
C8_ReasonOnlyWhenRejected ==
    \A i \in DOMAIN documents :
        documents[i].rejection_reason # NullText => documents[i].status = "Rejected"

\* C9: Approved and Rejected are terminal: once a document's stored status is
\* one of them, no step of any session changes it again.
C9_TerminalStatuses ==
    [][\A i \in DOMAIN documents :
        documents[i].status \in {"Approved", "Rejected"}
        => documents'[i].status = documents[i].status
    ]_vars

\* the UPDATE policies of documents let uid change the status of row
PolicyLetsSetStatus(uid, row, status) ==
    /\ DocumentsUpdateUsing(uid, row)
    /\ DocumentsUpdateCheck(uid, ApplyPatch(row, [status |-> status]))

\* C10: the client's gates match the database's UPDATE policies exactly: the
\* page offers submit for a document iff the policies let its user change
\* that document's status to Pending, and offers approve and reject iff they
\* let its user change it to Approved and to Rejected.
C10_GatesMatchPolicies ==
    \A s \in Sessions :
        DetailRendered(s) =>
            /\ SubmitOffered(s)
                  <=> PolicyLetsSetStatus(user[s], Doc(s), "Pending")
            /\ ApproveRejectOffered(s)
                  <=> /\ PolicyLetsSetStatus(user[s], Doc(s), "Approved")
                      /\ PolicyLetsSetStatus(user[s], Doc(s), "Rejected")

\* session t has the same document loaded as session s, as Pending, and is
\* offered Approve on it too
AlsoLoadedPending(s, t) ==
    /\ t # s
    /\ documentId[t] = documentId[s]
    /\ ApproveRejectOffered(t) \/ (pc[t] \in {"approve:insertHistory", "loadDocument",
                                             "loadHistory"}
                                   /\ captured[t].id = documentId[s]
                                   /\ captured[t].status = "Pending")

\* C11: when two sessions have loaded the same Pending document and both
\* invoke approve, neither invocation is rejected because the other ran
\* first: each click goes through and leaves the stored status Approved (the
\* later write wins), and each handler appends its own Approved history row.
C11_BothApprovesSucceed ==
    [][\A s \in Sessions :
        /\ ( /\ pc[s] = "idle"
             /\ pc'[s] # "idle"
             /\ ApproveRejectOffered(s)
             /\ ~showRejectModal[s]
             /\ \E t \in Sessions : AlsoLoadedPending(s, t) )
           => /\ pc'[s] = "approve:insertHistory"
              /\ StoredRow(documentId[s])'.status = "Approved"
        /\ Moves(s, "approve:insertHistory", "loadDocument")
           => /\ Len(document_history') = Len(document_history) + 1
              /\ LastHistory'.action_type = "Approved"
              /\ LastHistory'.performed_by = user[s]
              /\ LastHistory'.document_id = captured[s].id
    ]_vars

\* C12: the document history is append-only: every step of every client
\* operation leaves the rows the table had as they were, in place, and can
\* only add rows after them.
C12_HistoryAppendOnly ==
    [][ /\ Len(document_history') >= Len(document_history)
        /\ SubSeq(document_history', 1, Len(document_history)) = document_history
    ]_vars

\* C12 witness: an approve has added its row behind the rows of the create
\* and the submit
C12_Witness ==
    /\ Len(document_history) >= 3
    /\ document_history[1].action_type = "Created"
    /\ document_history[2].action_type = "Submitted"
    /\ LastHistory.action_type = "Approved"

\* C17: the document_files row of an attachment is inserted only after the
\* blob upload of that attachment has completed without error: a row is only
\* added by the insert step of uploadFilesToStorage, for the path the upload
\* just stored, and an upload that stores nothing is followed by no insert.
C17_MetadataAfterUpload ==
    [][ /\ document_files' # document_files
           => \E s \in Sessions :
                /\ pc[s] = "create:insertFile"
                /\ captured[s].path[1] \in storage_objects
                /\ Len(document_files') = Len(document_files) + 1
                /\ SubSeq(document_files', 1, Len(document_files)) = document_files
                /\ document_files'[Len(document_files')].file_url = captured[s].path[1]
        /\ \A s \in Sessions :
            /\ Moves(s, "create:upload", "create:insertFile")
               => /\ captured'[s].path[1] \notin storage_objects
                  /\ storage_objects' = storage_objects \cup {captured'[s].path[1]}
            /\ (pc[s] = "create:upload" /\ storage_objects' = storage_objects)
               => /\ pc'[s] # "create:insertFile"
                  /\ document_files' = document_files
    ]_vars

\* C17 witness: the metadata row of an uploaded attachment is in the table
C17_Witness ==
    /\ Len(document_files) = 1
    /\ document_files[1].file_url \in storage_objects

\* C18: submit, approve and reject are reported to the caller as failed
\* whenever the write of the history row errors: a history insert that adds
\* no row ends the handler in its failure alert.
C18_HistoryErrorReported ==
    [][\A s \in Sessions :
        ( /\ pc[s] \in {"submit:insertHistory", "approve:insertHistory",
                        "reject:insertHistory"}
          /\ pc'[s] # pc[s]
          /\ document_history' = document_history )
        => /\ pc'[s] = "alert"
           /\ lastAlert'[s] \in {"Failed to submit document. Please try again.",
                                 "Failed to approve document. Please try again.",
                                 "Failed to reject document. Please try again."}
    ]_vars

\* C19: document_number is unique among the documents of every reachable
\* state: a create either adds one document whose number no document had, or
\* (the number is taken, or the insert fails otherwise) adds no document row,
\* no history row and no file, and ends in the failure alert.
C19_DocumentNumberUnique ==
    [][ /\ \A i, j \in DOMAIN documents' :
            documents'[i].document_number = documents'[j].document_number => i = j
        /\ \A s \in Sessions :
            ( /\ pc[s] = "idle"
              /\ pc'[s] # "idle"
              /\ currentPage[s] = "create-document" )
            => \/ /\ Len(documents') = Len(documents) + 1
                  /\ \A i \in DOMAIN documents :
                        documents[i].document_number
                            # documents'[Len(documents')].document_number
                  /\ pc'[s] = "create:insertHistory"
               \/ /\ UNCHANGED dbVars
                  /\ pc'[s] = "alert"
                  /\ lastAlert'[s] = "Failed to create document. Please try again."
    ]_vars

\* C19 witness: a create with the number of an existing document has been
\* turned down (the network is reliable here)
C19_Witness ==
    \E s \in Sessions :
        /\ pc[s] = "alert"
        /\ lastAlert[s] = "Failed to create document. Please try again."
        /\ Len(documents) = 1
        /\ documents[1].document_number \in DocumentNumbers

\* the stored status of document id is Approved
IsApproved(id) ==
    \E i \in DOMAIN documents :
        documents[i].id = id /\ documents[i].status = "Approved"

\* stock_movements has a row whose source document is id
HasStockMovement(id) ==
    \E i \in DOMAIN stock_movements : stock_movements[i].source_document_id = id

\* C13: stock movements are generated from approved documents: whenever a
\* document's stored status becomes Approved, a stock_movements row whose
\* source_document_id is that document is eventually created.
C13_StockMovementsGenerated ==
    \A k \in DOMAIN DocumentIds :
        IsApproved(DocumentIds[k]) ~> HasStockMovement(DocumentIds[k])

\* the screens that are pages of the application
AppScreens == {"Dashboard", "DocumentList", "DocumentDetail", "CreateDocument",
               "InventoryDashboard", "ProductCatalog", "StockMovement", "Reports"}

\* the on-hand quantity of a product: the sum over its warehouse balances
OnHand(product) == SumBalances(product.stock_balances)

\* the active rows of products, which the dashboard has loaded
ActiveProducts == SelectSeq(products, LAMBDA p : p.is_active)

DashboardLoaded ==
    /\ ~inventoryLoading
    /\ stats.totalSKUs = Len(ActiveProducts)

\* C14: low-stock detection is inclusive.  Once the dashboard has loaded the
\* active products, a product is counted in lowStockItems and has an entry in
\* the alert list exactly if its on-hand quantity is at or below its reorder
\* point; and once the catalog has loaded, a product's stock cell is red
\* exactly if its on-hand quantity is at or below its reorder point.
C14_LowStockInclusive ==
    /\ DashboardLoaded =>
         LET low == {i \in DOMAIN ActiveProducts :
                        OnHand(ActiveProducts[i]) <= ActiveProducts[i].reorder_point}
         IN  /\ stats.lowStockItems = Cardinality(low)
             /\ \A i \in DOMAIN ActiveProducts :
                    i \in low <=>
                        \E k \in DOMAIN lowStockAlerts :
                            lowStockAlerts[k].sku = ActiveProducts[i].sku
    /\ (~catalogLoading /\ Len(catalogProducts) = Len(products)) =>
         \A i \in DOMAIN products : \A k \in DOMAIN catalogProducts :
             catalogProducts[k].sku = products[i].sku =>
                 (IsRed(catalogProducts[k])
                    <=> OnHand(products[i]) <= products[i].reorder_point)

\* the upper-case and lower-case forms of one letter
LetterPairs == {{"a", "A"}, {"b", "B"}, {"k", "K"}, {"p", "P"}, {"s", "S"}}

SameLetter(x, y) == x = y \/ {x, y} \in LetterPairs

\* sub occurs in t as a run of consecutive letters, whatever their case
ContainsIgnoringCase(t, sub) ==
    \E i \in 0..(Len(t) - Len(sub)) :
        \A j \in 1..Len(sub) : SameLetter(t[i + j], sub[j])

\* the rows of the loaded documents that satisfy every active predicate
RowsSatisfyingAll ==
    SelectSeq(listDocuments, LAMBDA doc :
        /\ \/ searchTerm = <<>>
           \/ ContainsIgnoringCase(doc.document_number, searchTerm)
           \/ ContainsIgnoringCase(doc.supplier_name, searchTerm)
        /\ statusFilter = "all" \/ doc.status = statusFilter
        /\ typeFilter = "all" \/ doc.document_type = typeFilter)

\* C15: list filtering is commutative and conjunctive.  The list shown is
\* exactly the loaded rows that satisfy all active predicates, the three
\* stages applied in any of their six orders give that same list, the search
\* predicate is case-insensitive substring containment, and an empty search
\* term selects every row; the same holds of the catalog's search.
C15_FilterCommutative ==
    LET S(r) == FilterSearch(r, searchTerm)
        T(r) == FilterStatus(r, statusFilter)
        Y(r) == FilterType(r, typeFilter)
    IN  /\ filteredDocs = RowsSatisfyingAll
        /\ S(T(Y(listDocuments))) = RowsSatisfyingAll
        /\ S(Y(T(listDocuments))) = RowsSatisfyingAll
        /\ T(S(Y(listDocuments))) = RowsSatisfyingAll
        /\ T(Y(S(listDocuments))) = RowsSatisfyingAll
        /\ Y(S(T(listDocuments))) = RowsSatisfyingAll
        /\ Y(T(S(listDocuments))) = RowsSatisfyingAll
        /\ searchTerm = <<>> => S(listDocuments) = listDocuments
        /\ filteredProducts =
             SelectSeq(catalogProducts, LAMBDA p :
                \/ catalogSearchTerm = <<>>
                \/ ContainsIgnoringCase(p.name, catalogSearchTerm)
                \/ ContainsIgnoringCase(p.sku, catalogSearchTerm))

\* C15 witness: all three filters are active and keep some but not all of two
\* loaded documents, one kept row matching the term only in another case,
\* while the catalog's search keeps one of two products
C15_Witness ==
    /\ searchTerm = <<"p">>
    /\ statusFilter # "all"
    /\ typeFilter # "all"
    /\ Len(listDocuments) = 2
    /\ Len(filteredDocs) = 1
    /\ filteredDocs[1].document_number = <<"P", "1">>
    /\ catalogSearchTerm = <<"o">>
    /\ Len(catalogProducts) = 2
    /\ Len(filteredProducts) = 1

\* C16: no application page is rendered while the session provider's loading
\* flag is true or while there is no identity; with loading false and no
\* identity the Login or the Register screen is shown.
C16_NoPageWithoutIdentity ==
    \A s \in Sessions :
        /\ (authLoading[s] \/ user[s] = NULL) => Screen(s) \notin AppScreens
        /\ (~authLoading[s] /\ user[s] = NULL) => Screen(s) \in {"Login", "Register"}

\* C16 witness: after a sign-out on the products page the session is shown
\* the Login screen
C16_Witness ==
    \E s \in Sessions :
        /\ ~authLoading[s]
        /\ user[s] = NULL
        /\ currentPage[s] = "products"
        /\ Screen(s) = "Login"

\* the policies let uid change some column of row
CanChange(uid, row) ==
    \/ \E st \in Statuses :
        UpdateDocuments(uid, row.id, [status |-> st]).table # documents
    \/ \E a \in Users \cup {NULL} :
        UpdateDocuments(uid, row.id, [approver_id |-> a]).table # documents
    \/ \E r \in {NullText, <<"x">>} :
        UpdateDocuments(uid, row.id, [rejection_reason |-> r]).table # documents

\* C20: mutation rights shift on submission: once a document's stored status
\* is Pending or later its creator can change the row only if they are also
\* its assigned approver or an Admin, and before submission (Draft) only the
\* creator or an Admin can change it.
C20_RightsShiftOnSubmission ==
    \A i \in DOMAIN documents : \A uid \in Users :
        LET row == documents[i]
        IN  /\ (row.status # "Draft" /\ uid = row.created_by /\ CanChange(uid, row))
               => (uid = row.approver_id \/ Role(uid) = "Admin")
            /\ (row.status = "Draft" /\ CanChange(uid, row))
               => (uid = row.created_by \/ Role(uid) = "Admin")

\* the stored status of document id was written by submit, approve or reject
\* and document_history has no row recording that status for it
StatusWithoutHistory(id) ==
    \E i \in DOMAIN documents :
        /\ documents[i].id = id
        /\ documents[i].status \in {"Pending", "Approved", "Rejected"}
        /\ ~\E k \in DOMAIN document_history :
                /\ document_history[k].document_id = id
                /\ document_history[k].new_status = documents[i].status

\* some running handler still has to insert the history row of document id
HistoryInsertDue(id) ==
    \E s \in Sessions : pc[s] \in HistoryInsertPositions /\ captured[s].id = id

\* C21: in submit, approve and reject the history insert is issued only after
\* the status update has completed, an interruption between the two writes
\* leaves the status changed without a matching history row, and nothing
\* later repairs that.  A step that writes a document writes no history row;
\* a Submitted, Approved or Rejected row is appended only by a handler that is
\* past its completed status update on that document; a handler that leaves
\* that position for idle has written nothing; and once a document's status
\* has no matching row and no handler is due to insert it, every step that
\* keeps the status keeps the row missing.
C21_HistoryAfterUpdate ==
    [][/\ documents' # documents => document_history' = document_history
       /\ (/\ Len(document_history') = Len(document_history) + 1
           /\ document_history'[Len(document_history')].action_type
                \in {"Submitted", "Approved", "Rejected"})
          => HistoryInsertDue(document_history'[Len(document_history')].document_id)
       /\ \A s \in Sessions :
            (pc[s] \in HistoryInsertPositions /\ pc'[s] = "idle")
                => /\ document_history' = document_history
                   /\ documents' = documents
       /\ \A k \in DOMAIN DocumentIds :
            LET id == DocumentIds[k]
            IN  (/\ StatusWithoutHistory(id)
                 /\ ~HistoryInsertDue(id)
                 /\ \E i \in DOMAIN documents : documents[i].id = id
                        /\ documents'[i].status = documents[i].status)
                => StatusWithoutHistory(id)'
      ]_vars

\* C21 witness: after a reload between an approve's two writes the user has
\* signed in again and opened the document: it is Approved, no handler is
\* running, and neither the table nor the loaded history has an Approved row
C21_Witness ==
    \E s \in Sessions :
        /\ DetailRendered(s)
        /\ pc[s] = "idle"
        /\ mountLoads[s] = {}
        /\ Doc(s).status = "Approved"
        /\ StatusWithoutHistory(Doc(s).id)
        /\ \A k \in DOMAIN history[s] : history[s][k].new_status # "Approved"
        /\ \A t \in Sessions : pc[t] = "idle"

\* the detail page of session s is mounted, its loadDocument has completed
\* and has left no document
LoadedWithoutRow(s) ==
    /\ AppRendered(s)
    /\ currentPage[s] = "document-detail"
    /\ documentId[s] # NULL
    /\ "loadDocument" \notin mountLoads[s]
    /\ document[s] = <<>>

\* C23: a detail page opened for a document id with no readable row stays in
\* the 'Loading document...' state forever.  A load that finds no readable
\* row completes with no document; a page whose load has completed without a
\* document shows 'Loading document...' and offers neither submit nor approve
\* nor reject; and it stays so for as long as the same user keeps the page
\* open on that id.
C23_NotFoundStaysLoading ==
    /\ [](\A s \in Sessions :
            LoadedWithoutRow(s) =>
                /\ DetailView(s) = "Loading document..."
                /\ ~SubmitOffered(s)
                /\ ~ApproveRejectOffered(s)
                /\ ~ModalRendered(s))
    /\ [][\A s \in Sessions :
            /\ (/\ "loadDocument" \in mountLoads[s]
                /\ "loadDocument" \notin mountLoads'[s]
                /\ currentPage'[s] = "document-detail"
                /\ user'[s] = user[s]
                /\ SelectDocument(user[s], documentId[s]) = <<>>)
               => (document'[s] = <<>> /\ ~loading'[s])
            /\ (/\ LoadedWithoutRow(s)
                /\ user'[s] = user[s]
                /\ currentPage'[s] = currentPage[s]
                /\ documentId'[s] = documentId[s])
               => LoadedWithoutRow(s)'
        ]_vars

\* C23 witness: a user who signed in on a detail page left open by someone
\* else has no right to read the row, which exists; the load has completed
C23_Witness ==
    \E s \in Sessions :
        /\ LoadedWithoutRow(s)
        /\ ~loading[s]
        /\ \E i \in DOMAIN documents :
            /\ documents[i].id = documentId[s]
            /\ ~DocumentsSelectPolicy(user[s], documents[i])

\* the alerts of the catch blocks of submit, approve and reject
WorkflowFailureAlerts ==
    {"Failed to submit document. Please try again.",
     "Failed to approve document. Please try again.",
     "Failed to reject document. Please try again."}

\* session s starts a submit, approve or reject in this step
StartsWorkflowAction(s) ==
    pc[s] = "idle" /\ ~actionLoading[s] /\ actionLoading'[s]

\* the patch of the action that session s can start from what it shows
OfferedPatch(s) ==
    IF showRejectModal[s] THEN RejectPatch(rejectionReason'[s])
    ELSE IF Doc(s).status = "Pending" THEN ApprovePatch
    ELSE SubmitPatch

\* C22: a status update of submit, approve or reject that returns an error
\* stops the action.  An action whose update would have changed the stored
\* document and did not (the update failed) ends in its failure alert with
\* the document and the history unchanged; closing that alert ends the
\* handler without any write (no retry, no history row); and a running
\* handler issues no status update after its first step.
C22_UpdateErrorStops ==
    [][\A s \in Sessions :
        /\ (/\ StartsWorkflowAction(s)
            /\ UpdateDocuments(user[s], documentId[s], OfferedPatch(s)).table
                  # documents
            /\ documents' = documents)
           => /\ pc'[s] = "alert"
              /\ lastAlert'[s] \in WorkflowFailureAlerts
              /\ document_history' = document_history
        /\ (/\ pc[s] = "alert"
            /\ lastAlert[s] \in WorkflowFailureAlerts
            /\ pc'[s] # pc[s])
           => /\ pc'[s] = "idle"
              /\ documents' = documents
              /\ document_history' = document_history
        /\ (/\ pc[s] \in HistoryInsertPositions \cup {"loadDocument", "loadHistory"}
            /\ pc'[s] # pc[s])
           => documents' = documents
      ]_vars

\* C22 witness: the status update of a reject has failed: its alert is up,
\* and the stored document is still Pending with no reason and no Rejected
\* row
C22_Witness ==
    \E s \in Sessions :
        /\ pc[s] = "alert"
        /\ lastAlert[s] = "Failed to reject document. Please try again."
        /\ StoredRow(documentId[s]).status = "Pending"
        /\ \A k \in DOMAIN document_history :
              document_history[k].new_status # "Rejected"

\* C24: every submit, approve or reject terminates with the session usable
\* again: whatever each backend call returns, actionLoading is eventually
\* false again, and it is false whenever no handler is running, so the
\* action buttons are never left disabled.
C24_ActionLoadingReset ==
    /\ \A s \in Sessions : actionLoading[s] ~> ~actionLoading[s]
    /\ [](\A s \in Sessions : pc[s] = "idle" => ~actionLoading[s])

\* C24 witness: an approve has ended although its history insert and its
\* reload of the document both failed: the stored status is Approved with no
\* history row, the page still shows Pending, and the buttons are enabled
C24_Witness ==
    \E s \in Sessions :
        /\ DetailRendered(s)
        /\ pc[s] = "idle"
        /\ ~actionLoading[s]
        /\ Doc(s).status = "Pending"
        /\ StoredRow(Doc(s).id).status = "Approved"
        /\ StatusWithoutHistory(Doc(s).id)

\* C25: in every state reachable through the client's operations every
\* document's stored status is Draft, Pending, Approved or Rejected: no
\* operation writes Closed (nor any other value), to the documents or to the
\* new_status of a history row.
C25_NeverClosed ==
    /\ \A i \in DOMAIN documents :
          documents[i].status \in {"Draft", "Pending", "Approved", "Rejected"}
    /\ \A k \in DOMAIN document_history :
          document_history[k].new_status \in {"Draft", "Pending", "Approved", "Rejected"}

\* C25 witness: a document has been created, submitted and approved, each
\* step with its history row
C25_Witness ==
    \E i \in DOMAIN documents :
        /\ documents[i].status = "Approved"
        /\ \A st \in {"Draft", "Pending", "Approved"} :
              \E k \in DOMAIN document_history :
                  /\ document_history[k].document_id = documents[i].id
                  /\ document_history[k].new_status = st

\* a submit, approve or reject of session s is between its first step and
\* its end
WorkflowActionRunning(s) ==
    \/ pc[s] \in HistoryInsertPositions \cup {"loadDocument", "loadHistory"}
    \/ pc[s] = "alert" /\ lastAlert[s] \in WorkflowFailureAlerts

\* the workflow actions of session s that are in flight: the one of the
\* mounted detail page and those of pages the user has left
ActionsInFlight(s) ==
    Len(background[s]) + (IF WorkflowActionRunning(s) THEN 1 ELSE 0)

\* C26: within one session at most one workflow action is in flight.  From
\* a handler's first step until its end actionLoading is true; while it is
\* true none of submit, approve and reject can be started from the session's
\* detail page, whatever the call would return; a step that starts one is
\* taken with no other one running; and no session ever has two of them in
\* flight.
C26_OneActionInFlight ==
    /\ [](\A s \in Sessions :
            /\ WorkflowActionRunning(s) => actionLoading[s]
            /\ actionLoading[s] =>
                 \A failed \in BOOLEAN :
                    /\ ~ENABLED handleApprove(s, failed)
                    /\ ~ENABLED handleSubmitForApproval(s, failed)
                    /\ \A text \in ReasonInputs \ {<<>>, <<" ">>} :
                          ~ENABLED handleReject(s, text, failed)
            /\ ActionsInFlight(s) <= 1)
    /\ [][\A s \in Sessions :
            (~WorkflowActionRunning(s) /\ WorkflowActionRunning(s)')
                => (pc[s] = "idle" /\ ~actionLoading[s])
        ]_vars

\* C27: the history never records a transition that was not applied: when
\* submit, approve or reject appends a history row with new_status S for a
\* document, the stored status of that document is S, set by that action's
\* update; an update that the policies filter to zero rows is followed by no
\* history row.
C27_HistoryOnlyApplied ==
    [][\A s \in Sessions :
        (/\ pc[s] \in HistoryInsertPositions
         /\ pc'[s] # pc[s]
         /\ Len(document_history') = Len(document_history) + 1)
        => LET row == document_history'[Len(document_history')]
           IN  /\ row.document_id = captured[s].id
               /\ StoredRow(row.document_id).status = row.new_status
      ]_vars

\* C28: the old_status that submit, approve or reject writes to its history
\* row is the document's stored status immediately before that action's
\* status update, also when another session changed the document after the
\* acting session loaded it: the status a handler keeps for its history row
\* when it issues the update is the stored one, and the row it inserts
\* carries that status as old_status.
C28_OldStatusIsStored ==
    [][\A s \in Sessions :
        /\ (pc[s] = "idle" /\ pc'[s] \in HistoryInsertPositions)
           => captured'[s].status = StoredRow(documentId[s]).status
        /\ (/\ pc[s] \in HistoryInsertPositions
            /\ pc'[s] # pc[s]
            /\ Len(document_history') = Len(document_history) + 1)
           => document_history'[Len(document_history')].old_status
                = captured[s].status
      ]_vars

\* the sum of the on-hand quantities of the given products
RECURSIVE SumOnHand(_)
SumOnHand(rows) ==
    IF rows = <<>> THEN 0 ELSE OnHand(rows[1]) + SumOnHand(Tail(rows))

\* C29: the inventory dashboard and the product catalog compute the same
\* on-hand quantity for every active product, the sum of quantity_on_hand
\* over its warehouse balances, and so agree on the products at or below
\* their reorder point.  Once both pages have loaded the table, the catalog's
\* total_stock of every product is that sum, the dashboard's total quantity
\* is the sum of those sums, the quantity of every alert is the product's
\* sum, and an active product has an alert exactly if its catalog cell is
\* red.
C29_SameOnHandQuantity ==
    (/\ DashboardLoaded
     /\ ~catalogLoading
     /\ Len(catalogProducts) = Len(products))
    => /\ \A i \in DOMAIN products : \A k \in DOMAIN catalogProducts :
            catalogProducts[k].sku = products[i].sku
                => catalogProducts[k].total_stock = OnHand(products[i])
       /\ stats.totalQuantity = SumOnHand(ActiveProducts)
       /\ \A i \in DOMAIN ActiveProducts : \A k \in DOMAIN lowStockAlerts :
            lowStockAlerts[k].sku = ActiveProducts[i].sku
                => lowStockAlerts[k].quantity = OnHand(ActiveProducts[i])
       /\ \A k \in DOMAIN catalogProducts :
            catalogProducts[k].is_active
                => (IsRed(catalogProducts[k])
                      <=> \E j \in DOMAIN lowStockAlerts :
                              lowStockAlerts[j].sku = catalogProducts[k].sku)

\* the positions of CreateDocument.handleSubmit after its document insert
CreatePositions == {"create:insertHistory", "create:upload", "create:insertFile"}

\* C30: create reports success if and only if the document row was inserted.
\* A handleSubmit whose insert adds no row ends in the failure alert; one
\* whose insert adds the row goes on, and from there every step of the
\* handler keeps the documents as they are and either goes on or ends in
\* 'Document created successfully!', whatever the history insert, the uploads
\* and the file inserts return; and that alert comes up only at the end of
\* such a handler, with its document stored.
C30_SuccessIffInserted ==
    [][\A s \in Sessions :
        /\ (pc[s] = "idle" /\ ~createLoading[s] /\ createLoading'[s])
           => IF documents' = documents
              THEN /\ pc'[s] = "alert"
                   /\ lastAlert'[s] = "Failed to create document. Please try again."
              ELSE /\ pc'[s] = "create:insertHistory"
                   /\ Len(documents') = Len(documents) + 1
                   /\ documents'[Len(documents')].id = captured'[s].id
        /\ (pc[s] \in CreatePositions /\ pc'[s] # pc[s])
           => /\ documents' = documents
              /\ \/ pc'[s] \in CreatePositions
                 \/ /\ pc'[s] = "alert"
                    /\ lastAlert'[s] = "Document created successfully!"
        /\ (/\ lastAlert'[s] = "Document created successfully!"
            /\ lastAlert[s] # lastAlert'[s])
           => /\ pc[s] \in CreatePositions
              /\ \E i \in DOMAIN documents' : documents'[i].id = captured[s].id
      ]_vars

\* C30 witness: success is reported for a document that is stored although
\* its Created history row was not: the history insert had failed
C30_Witness ==
    \E s \in Sessions :
        /\ pc[s] = "alert"
        /\ lastAlert[s] = "Document created successfully!"
        /\ Len(documents) = 1
        /\ document_history = <<>>
        /\ document_files = <<>>

====
